---- MODULE Spec2Model ----
(***************************************************************************)
(* A model of Inity (package smartenv): the project-creation orchestrator  *)
(* ProjectCreator.create, the PackageManager batch operations, the .env    *)
(* generator, interpreter discovery and registry validation.               *)
(*                                                                         *)
(* Text is modelled as sequences of one-character strings, so that the     *)
(* string operations of the code (startswith, replace, in, lower, sorted,  *)
(* format) are computed rather than assumed.                               *)
(***************************************************************************)
EXTENDS Integers, Sequences, FiniteSets, TLC

VARIABLES
    pm_op,        \* PackageManager: the operation of the last call ("idle" before any)
    pm_args,      \* its arguments
    pm_cmds,      \* the command lines handed to subprocess.run, in order
    pm_reports,   \* the per-package progress descriptions, in order
    pm_count,     \* success_count when the call returned
    pm_ret,       \* the value the call returned
    eg_phase,     \* EnvGenerator: "idle", or "done" after generate_env_file
    eg_env_vars,  \* the env_vars it was given: a sequence of <<key, value>>
    eg_file,      \* the text written to .env
    pv_phase,     \* PythonVersionManager: "idle", or "done" after get_available_versions
    pv_host,      \* what the host's discovery sources report
    pv_choices,   \* the list get_available_versions returned
    px_phase,     \* PythonVersionManager: "idle", or "done" after get_python_executable
    px_label,     \* the version label it was given
    px_host,      \* what the conda and pyenv lookups do on the host
    px_result,    \* what the call handed back
    ps_phase,     \* PackageSearcher: "idle", or "done" after validate_packages
    ps_packages,  \* the identifiers it was given
    ps_lookups,   \* what the registry lookup of each identifier did
    ps_queries,   \* the package names the registry was asked for, in order
    ps_valid,     \* the list of valid identifiers returned
    ps_invalid,   \* the list of invalid identifiers returned
    ps_raised,    \* whether the call raised instead of returning
    sr_phase,     \* PackageSearcher: "idle", or "done" after search_packages_realtime
    sr_query,     \* the query it was given
    sr_limit,     \* the limit it was given
    sr_response,  \* what the registry answered to the live lookup
    sr_results,   \* the list it returned
    gf_phase,     \* ProjectCreator: "idle", or "done" after _generate_files
    gf_args,      \* the creator, the template and the names that cannot be written
    gf_result,    \* whether the call raised, and the files on disk afterwards
    pc_stage,     \* ProjectCreator: "idle", the stage of create() about to run, "done" or "raised"
    pc_cfg,       \* the constructor arguments
    pc_host,      \* the host when create() was called: its disk and what conda reports
    pc_fs,        \* the directories and executables that exist under the project path
    pc_envs,      \* the names of the conda environments that exist
    pc_files,     \* the files create() has written: a dict name -> text
    pc_log,       \* the stages that have run, in order
    pc_procs,     \* the processes handed to subprocess.run, in order
    pc_batches    \* the dependency batches that have ended, in order

pm_vars == <<pm_op, pm_args, pm_cmds, pm_reports, pm_count, pm_ret>>
eg_vars == <<eg_phase, eg_env_vars, eg_file>>
pv_vars == <<pv_phase, pv_host, pv_choices>>
px_vars == <<px_phase, px_label, px_host, px_result>>
ps_vars == <<ps_phase, ps_packages, ps_lookups, ps_queries, ps_valid, ps_invalid, ps_raised>>
sr_vars == <<sr_phase, sr_query, sr_limit, sr_response, sr_results>>
gf_vars == <<gf_phase, gf_args, gf_result>>
pc_vars == <<pc_stage, pc_cfg, pc_host, pc_fs, pc_envs, pc_files, pc_log, pc_procs, pc_batches>>

vars == <<pm_vars, eg_vars, pv_vars, px_vars, ps_vars, sr_vars, gf_vars, pc_vars>>

\* what the actions of one component leave unchanged
pm_others == <<eg_vars, pv_vars, px_vars, ps_vars, sr_vars, gf_vars, pc_vars>>
eg_others == <<pm_vars, pv_vars, px_vars, ps_vars, sr_vars, gf_vars, pc_vars>>
pv_others == <<pm_vars, eg_vars, px_vars, ps_vars, sr_vars, gf_vars, pc_vars>>
px_others == <<pm_vars, eg_vars, pv_vars, ps_vars, sr_vars, gf_vars, pc_vars>>
ps_others == <<pm_vars, eg_vars, pv_vars, px_vars, sr_vars, gf_vars, pc_vars>>
sr_others == <<pm_vars, eg_vars, pv_vars, px_vars, ps_vars, gf_vars, pc_vars>>
gf_others == <<pm_vars, eg_vars, pv_vars, px_vars, ps_vars, sr_vars, pc_vars>>
pc_others == <<pm_vars, eg_vars, pv_vars, px_vars, ps_vars, sr_vars, gf_vars>>

-----------------------------------------------------------------------------
(* Text *)

\* The printable ASCII characters in code point order, from 32 to 126.
\* (the grave accent, code point 96, is written "grave")
Ascii == <<" ","!","\"","#","$","%","&">> \o <<"'">> \o <<"(",")","*","+",",","-",".","/","0","1","2","3","4","5","6","7","8","9",":",";","<","=",">","?","@","A","B","C","D","E","F","G","H","I","J","K","L","M","N","O","P","Q","R","S","T","U","V","W","X","Y","Z","[","\\","]","^","_">>
         \o <<"grave">> \o <<"a","b","c","d","e","f","g","h","i","j","k","l","m","n","o","p","q","r","s","t","u","v","w","x","y","z","{","|","}","~">>

Chars == {Ascii[i] : i \in 1..Len(Ascii)}

\* ord(c)
Ord == [c \in Chars |-> 31 + (CHOOSE i \in 1..Len(Ascii) : Ascii[i] = c)]

\* str.lower() on one character
LowerChar(c) == IF Ord[c] >= 65 /\ Ord[c] <= 90 THEN Ascii[Ord[c] + 32 - 31] ELSE c

\* str.upper() on one character
UpperChar(c) == IF Ord[c] >= 97 /\ Ord[c] <= 122 THEN Ascii[Ord[c] - 32 - 31] ELSE c

\* str.lower()
Lower(s) == [i \in 1..Len(s) |-> LowerChar(s[i])]

\* s[i:i+len(t)] == t
MatchAt(s, t, i) == /\ i + Len(t) - 1 <= Len(s)
                    /\ \A k \in 1..Len(t) : s[i + k - 1] = t[k]

\* s.startswith(t)
StartsWith(s, t) == MatchAt(s, t, 1)

\* t in s
Contains(s, t) == \E i \in 1..(Len(s) - Len(t) + 1) : MatchAt(s, t, i)

\* s[i:] (1-based i)
Drop(s, i) == SubSeq(s, i, Len(s))

\* s.split(sep)[0]: the text before the first occurrence of sep
SplitHead(s, sep) ==
    IF Contains(s, sep)
    THEN SubSeq(s, 1, (CHOOSE i \in 1..Len(s) :
                          /\ MatchAt(s, sep, i)
                          /\ \A j \in 1..(i - 1) : ~MatchAt(s, sep, j)) - 1)
    ELSE s

\* s.strip(), for texts whose only white space is the space
Strip(s) ==
    IF \A i \in 1..Len(s) : s[i] = " " THEN <<>>
    ELSE SubSeq(s,
                CHOOSE i \in 1..Len(s) : s[i] # " " /\ \A j \in 1..(i - 1) : s[j] = " ",
                CHOOSE i \in 1..Len(s) : s[i] # " " /\ \A j \in (i + 1)..Len(s) : s[j] = " ")

\* whether str.title() treats the character as a letter
IsCased(c) == (Ord[c] >= 65 /\ Ord[c] <= 90) \/ (Ord[c] >= 97 /\ Ord[c] <= 122)

\* str.title(): a letter after a letter is lowered, any other letter is raised
Title(s) ==
    [i \in 1..Len(s) |->
        IF i > 1 /\ IsCased(s[i - 1]) THEN LowerChar(s[i]) ELSE UpperChar(s[i])]

\* s.replace(old, new) from position i on: every non-overlapping occurrence,
\* left to right
RECURSIVE ReplaceFrom(_, _, _, _)
ReplaceFrom(s, old, new, i) ==
    IF i > Len(s) THEN <<>>
    ELSE IF MatchAt(s, old, i) THEN new \o ReplaceFrom(s, old, new, i + Len(old))
    ELSE <<s[i]>> \o ReplaceFrom(s, old, new, i + 1)

\* s.replace(old, new), for a non-empty old
Replace(s, old, new) == ReplaceFrom(s, old, new, 1)

\* s[i:] < t[i:] for Python strings that agree before position i:
\* lexicographic on code points
RECURSIVE StrLessFrom(_, _, _)
StrLessFrom(s, t, i) ==
    IF i > Len(t) THEN FALSE
    ELSE IF i > Len(s) THEN TRUE
    ELSE IF s[i] = t[i] THEN StrLessFrom(s, t, i + 1)
    ELSE Ord[s[i]] < Ord[t[i]]

\* s < t for Python strings
StrLess(s, t) == StrLessFrom(s, t, 1)

\* the concatenation of a sequence of strings
RECURSIVE Concat(_)
Concat(ss) == IF Len(ss) = 0 THEN <<>> ELSE ss[1] \o Concat(Tail(ss))

\* sep.join(ss)
RECURSIVE JoinFrom(_, _, _)
JoinFrom(ss, sep, i) ==
    IF i > Len(ss) THEN <<>>
    ELSE IF i = Len(ss) THEN ss[i]
    ELSE ss[i] \o sep \o JoinFrom(ss, sep, i + 1)

Join(ss, sep) == JoinFrom(ss, sep, 1)

\* a dict in insertion order is a sequence of <<key, value>> with distinct keys
DictKeys(d) == {d[i][1] : i \in 1..Len(d)}

\* d[k]
DictGet(d, k) == d[CHOOSE i \in 1..Len(d) : d[i][1] = k][2]

\* d[k] = v: a new key goes last, an old key keeps its place
DictSet(d, k, v) ==
    IF k \in DictKeys(d)
    THEN [i \in 1..Len(d) |-> IF d[i][1] = k THEN <<k, v>> ELSE d[i]]
    ELSE Append(d, <<k, v>>)

\* the dict built by d[k] = v for each <<k, v>> of pairs[i:], in order
RECURSIVE DictSetAll(_, _, _)
DictSetAll(d, pairs, i) ==
    IF i > Len(pairs) THEN d
    ELSE DictSetAll(DictSet(d, pairs[i][1], pairs[i][2]), pairs, i + 1)

\* sequences over S of length at most n
SeqsUpTo(S, n) == UNION {[1..k -> S] : k \in 0..n}

-----------------------------------------------------------------------------
(* PackageManager (utils/package_manager.py) *)

\* the longest package list a PackageManager call is given
MaxPkgs == 2

\* sys.executable of the host
SysExecutable == <<"/","b","i","n","/","p","y">>

\* the package identifiers calls are made with
PkgUniverse == {<<"r","i","c","h">>, <<"d","j","[","a","]">>, <<"g","i","t","+","x">>}

\* the environment strings calls are made with; <<>> stands for None and ""
EnvUniverse == {<<>>, <<"c","o","n","d","a",":","m","l">>, <<"v","e","n","v",":","/","w">>, <<"p","y","3">>}

\* os.name of the host
OsNames == {"posix", "nt"}

\* what subprocess.run(cmd, check=True, timeout=...) can do: return, raise
\* CalledProcessError, raise TimeoutExpired, raise FileNotFoundError
Outcomes == {"ok", "nonzero", "timeout", "nolaunch"}

\* the separator pathlib joins with
PathSep(os_name) == IF os_name = "nt" THEN <<"\\">> ELSE <<"/">>

RECURSIVE StripTrailing(_, _)
StripTrailing(p, sep) ==
    IF Len(p) > 1 /\ <<p[Len(p)]>> = sep
    THEN StripTrailing(SubSeq(p, 1, Len(p) - 1), sep) ELSE p

\* str(Path(p) / a / b), for p without "." components or doubled separators
PathJoin2(p, a, b, os_name) ==
    LET sep  == PathSep(os_name)
        base == StripTrailing(IF os_name = "nt" THEN Replace(p, <<"/">>, sep) ELSE p, sep)
    IN  IF base = <<>> THEN a \o sep \o b
        ELSE IF base = sep THEN sep \o a \o sep \o b
        ELSE base \o sep \o a \o sep \o b

\* _install_single_package, lines 89-107: the pip executable for the scope
InstallPrefix(global_scope, environment, os_name) ==
    IF environment # <<>> /\ StartsWith(environment, <<"c","o","n","d","a",":">>)
    THEN <<<<"c","o","n","d","a">>, <<"r","u","n">>, <<"-","n">>, Replace(environment, <<"c","o","n","d","a",":">>, <<>>), <<"p","i","p">>>>
    ELSE IF environment # <<>> /\ StartsWith(environment, <<"v","e","n","v",":">>)
    THEN LET venv_path == Replace(environment, <<"v","e","n","v",":">>, <<>>)
         IN  IF os_name = "nt"
             THEN <<PathJoin2(venv_path, <<"S","c","r","i","p","t","s">>, <<"p","i","p",".","e","x","e">>, os_name)>>
             ELSE <<PathJoin2(venv_path, <<"b","i","n">>, <<"p","i","p">>, os_name)>>
    ELSE IF global_scope
    THEN <<SysExecutable, <<"-","m">>, <<"p","i","p">>>>
    ELSE <<<<"p","i","p">>>>

\* _install_single_package, lines 86-129: the command line for one package.
\* o is the record of keyword arguments.
InstallCmd(package, o) ==
    InstallPrefix(o.global_scope, o.environment, o.os_name)
    \o <<<<"i","n","s","t","a","l","l">>>>
    \o (IF o.upgrade THEN <<<<"-","-","u","p","g","r","a","d","e">>>> ELSE <<>>)
    \o (IF o.force THEN <<<<"-","-","f","o","r","c","e","-","r","e","i","n","s","t","a","l","l">>, <<"-","-","n","o","-","d","e","p","s">>>> ELSE <<>>)
    \o (IF o.from_git \/ Contains(package, <<"g","i","t","+">>)
        THEN (IF o.editable /\ ~StartsWith(package, <<"-","e">>) THEN <<<<"-","e">>>> ELSE <<>>)
             \o <<package>>
        ELSE IF o.extras /\ ~Contains(package, <<"[">>)
             THEN <<package \o <<"[","a","l","l","]">>>>
             ELSE <<package>>)

\* _install_single_package, lines 131-146: what the call does with the outcome
\* of subprocess.run: "True", "False", or "raise" (FileNotFoundError is not caught)
InstallSingleResult(outcome) ==
    CASE outcome = "ok"       -> "True"
      [] outcome = "nonzero"  -> "False"
      [] outcome = "timeout"  -> "False"
      [] outcome = "nolaunch" -> "raise"

\* one iteration of the loop of install_packages (lines 44-68): the command
\* line handed to subprocess.run, the progress description, and whether
\* success_count is incremented
InstallIteration(package, outcome, o) ==
    [cmd     |-> InstallCmd(package, o),
     report  |-> CASE InstallSingleResult(outcome) = "True"  -> "installed"
                   [] InstallSingleResult(outcome) = "False" -> "failed"
                   [] InstallSingleResult(outcome) = "raise" -> "error",
     counted |-> (InstallSingleResult(outcome) = "True")]

\* the iterations of a loop that lets the exception of a failed launch end the batch
InstallLoopNoCatch(packages, outcomes, o) ==
    LET stop == IF \E i \in 1..Len(packages) : outcomes[i] = "nolaunch"
                THEN CHOOSE i \in 1..Len(packages) :
                        /\ outcomes[i] = "nolaunch"
                        /\ \A j \in 1..(i - 1) : outcomes[j] # "nolaunch"
                ELSE Len(packages)
    IN  [i \in 1..stop |-> InstallIteration(packages[i], outcomes[i], o)]

\* the iterations of the loop of install_packages (lines 44-68), in order:
\* outcomes[i] is what subprocess.run does for packages[i]; the loop has no
\* break and catches every exception (line 65), so it runs once per package
InstallLoop(packages, outcomes, o) ==
    [i \in 1..Len(packages) |-> InstallIteration(packages[i], outcomes[i], o)]

\* install_packages (lines 20-71), from the iterations of its loop
InstallReturn(iterations, total_count) ==
    [cmds    |-> [i \in 1..Len(iterations) |-> iterations[i].cmd],
     reports |-> [i \in 1..Len(iterations) |-> iterations[i].report],
     success_count |-> Cardinality({i \in 1..Len(iterations) : iterations[i].counted}),
     ret     |-> (Cardinality({i \in 1..Len(iterations) : iterations[i].counted})
                  = total_count)]

\* install_packages (lines 20-71)
install_packages(packages, o, outcomes) ==
    InstallReturn(InstallLoop(packages, outcomes, o), Len(packages))

\* the keyword arguments update_packages passes on (lines 233-238), the others
\* at the defaults of install_packages (lines 23-29)
UpdateOptions(global_scope, environment, os_name) ==
    [global_scope |-> global_scope, environment |-> environment,
     from_git |-> FALSE, editable |-> FALSE, upgrade |-> TRUE,
     force |-> FALSE, extras |-> FALSE, os_name |-> os_name]

\* an update that forgets the upgrade flag
update_packages_no_upgrade(packages, global_scope, environment, os_name, outcomes) ==
    install_packages(packages,
                     [UpdateOptions(global_scope, environment, os_name)
                        EXCEPT !.upgrade = FALSE],
                     outcomes)

\* update_packages (lines 225-238)
update_packages(packages, global_scope, environment, os_name, outcomes) ==
    install_packages(packages, UpdateOptions(global_scope, environment, os_name), outcomes)

\* what subprocess.run(cmd, check=True) without a timeout can do: return,
\* raise CalledProcessError, raise FileNotFoundError
UninstallOutcomes == {"ok", "nonzero", "nolaunch"}

\* _get_pip_command (lines 340-355) with the global flag tested first
get_pip_command_global_first(global_scope, environment, os_name) ==
    IF global_scope
    THEN <<SysExecutable, <<"-","m">>, <<"p","i","p">>>>
    ELSE InstallPrefix(FALSE, environment, os_name)

\* _get_pip_command (lines 340-355)
get_pip_command(global_scope, environment, os_name) ==
    IF environment # <<>> /\ StartsWith(environment, <<"c","o","n","d","a",":">>)
    THEN <<<<"c","o","n","d","a">>, <<"r","u","n">>, <<"-","n">>, Replace(environment, <<"c","o","n","d","a",":">>, <<>>), <<"p","i","p">>>>
    ELSE IF environment # <<>> /\ StartsWith(environment, <<"v","e","n","v",":">>)
    THEN LET venv_path == Replace(environment, <<"v","e","n","v",":">>, <<>>)
         IN  IF os_name = "nt"
             THEN <<PathJoin2(venv_path, <<"S","c","r","i","p","t","s">>, <<"p","i","p",".","e","x","e">>, os_name)>>
             ELSE <<PathJoin2(venv_path, <<"b","i","n">>, <<"p","i","p">>, os_name)>>
    ELSE IF global_scope
    THEN <<SysExecutable, <<"-","m">>, <<"p","i","p">>>>
    ELSE <<<<"p","i","p">>>>

\* lines 163-164: the command line for one package
UninstallCmd(package, sc) ==
    get_pip_command(sc.global_scope, sc.environment, sc.os_name)
    \o <<<<"u","n","i","n","s","t","a","l","l">>, package, <<"-","y">>>>

\* the iterations the loop of uninstall_packages (lines 160-177) makes: it
\* catches CalledProcessError only, so the first invocation that starts no
\* process is the last
UninstallRuns(packages, outcomes) ==
    IF \E i \in 1..Len(packages) : outcomes[i] = "nolaunch"
    THEN CHOOSE i \in 1..Len(packages) :
            outcomes[i] = "nolaunch" /\ \A j \in 1..(i - 1) : outcomes[j] # "nolaunch"
    ELSE Len(packages)

\* uninstall_packages (lines 148-179)
uninstall_packages(packages, sc, outcomes) ==
    LET runs == UninstallRuns(packages, outcomes)
        success_count == Cardinality({i \in 1..runs : outcomes[i] = "ok"})
    IN  [cmds    |-> [i \in 1..runs |-> UninstallCmd(packages[i], sc)],
         reports |-> [i \in 1..runs |->
                        CASE outcomes[i] = "ok"       -> "uninstalled"
                          [] outcomes[i] = "nonzero"  -> "failed"
                          [] outcomes[i] = "nolaunch" -> "error"],
         success_count |-> success_count,
         raised  |-> \E i \in 1..Len(packages) : outcomes[i] = "nolaunch",
         ret     |-> (success_count = Len(packages))]

\* the package lists calls are made with: up to MaxPkgs identifiers, each at
\* most once (the loop treats a repeated identifier like any other)
PkgLists ==
    {ps \in SeqsUpTo(PkgUniverse, MaxPkgs) :
        \A i, j \in 1..Len(ps) : ps[i] = ps[j] => i = j}

\* the scopes calls are made with: the global flag, the environment string and
\* the host's os.name (which only the venv case reads)
Scopes ==
    {sc \in [global_scope : BOOLEAN, environment : EnvUniverse, os_name : OsNames] :
        sc.os_name = "nt" => StartsWith(sc.environment, <<"v","e","n","v",":">>)}

\* the keyword arguments of a call of install_packages
InstallOptions(sc, from_git, editable, upgrade, force, extras) ==
    [global_scope |-> sc.global_scope, environment |-> sc.environment,
     from_git |-> from_git, editable |-> editable, upgrade |-> upgrade,
     force |-> force, extras |-> extras, os_name |-> sc.os_name]

\* the URLs install_from_git is called with
GitUrls ==
    {<<"h","t","t","p","s",":","/","/","g","i","t","h","u","b",".","c","o","m","/","a","/","b">>, <<"h","t","t","p","s",":","/","/","g","i","t","h","u","b",".","c","o","m","/","a","/","b",".","g","i","t">>,
     <<"h","t","t","p","s",":","/","/","g","i","t","l","a","b",".","c","o","m","/","a","-","b","/","c","_","d">>, <<"h","t","t","p","s",":","/","/","b","i","t","b","u","c","k","e","t",".","o","r","g","/","a","/","b">>,
     <<"g","i","t","@","g","i","t","h","u","b",".","c","o","m",":","a","/","b",".","g","i","t">>, <<"s","s","h",":","/","/","g","i","t","@","h",".","i","o","/","a","/","b">>,
     <<"h","t","t","p","s",":","/","/","g","i","t","h","u","b",".","c","o","m","/","a","/","b","\n">>,
     <<"h","t","t","p",":","/","/","g","i","t","h","u","b",".","c","o","m","/","a","/","b">>, <<"h","t","t","p","s",":","/","/","g","i","t","h","u","b",".","c","o","m","/","a">>, <<"h","t","t","p","s",":","/","/","g","i","t","h","u","b",".","c","o","m","/","a","/","b","/","c">>,
     <<"h","t","t","p","s",":","/","/","e","v","i","l",".","c","o","m","/","a","/","b">>, <<"h","t","t","p","s",":","/","/","g","i","t","h","u","b","X","c","o","m","/","a","/","b">>, <<"h","t","t","p","s",":","/","/","g","i","t","h","u","b",".","c","o","m","/","a","/","b"," ","c">>,
     <<"g","i","t","+","h","t","t","p","s",":","/","/","g","i","t","h","u","b",".","c","o","m","/","a","/","b">>, <<"g","i","t","@","g","i","t","h","u","b",".","c","o","m","/","a","/","b">>, <<"s","s","h",":","/","/","g","i","t","@","h",".","i","o",":","a","/","b">>,
     <<"f","i","l","e",":","/","/","/","e","t","c">>, <<>>}

\* [\w\-\.] on an ASCII character
IsNameChar(c) ==
    /\ c # "\n"
    /\ \/ IsCased(c)
       \/ (Ord[c] >= 48 /\ Ord[c] <= 57)
       \/ c \in {"_", "-", "."}

\* whether s from position i on is [\w\-\.]+ followed, for each separator of
\* seps in turn, by the separator and [\w\-\.]+, and then ends. The optional
\* group (?:\.git)? of the patterns matches nothing that [\w\-\.]+ does not
\* match, and $ matches at the end and before a final line feed.
RECURSIVE MatchesNames(_, _, _)
MatchesNames(s, i, seps) ==
    LET e == IF \E k \in i..Len(s) : ~IsNameChar(s[k])
             THEN (CHOOSE k \in i..Len(s) :
                      ~IsNameChar(s[k]) /\ \A j \in i..(k - 1) : IsNameChar(s[j])) - 1
             ELSE Len(s)
    IN  IF e < i THEN FALSE
        ELSE IF Len(seps) = 0 THEN e = Len(s) \/ (e = Len(s) - 1 /\ s[Len(s)] = "\n")
        ELSE e < Len(s) /\ s[e + 1] = seps[1] /\ MatchesNames(s, e + 2, Tail(seps))

\* lines 330-336: the patterns, as <<literal prefix, separators>>
git_patterns ==
    << <<<<"h","t","t","p","s",":","/","/","g","i","t","h","u","b",".","c","o","m","/">>, <<"/">>>>,
       <<<<"h","t","t","p","s",":","/","/","g","i","t","l","a","b",".","c","o","m","/">>, <<"/">>>>,
       <<<<"h","t","t","p","s",":","/","/","b","i","t","b","u","c","k","e","t",".","o","r","g","/">>, <<"/">>>>,
       <<<<"g","i","t","@">>, <<":", "/">>>>,
       <<<<"s","s","h",":","/","/","g","i","t","@">>, <<"/", "/">>>> >>

\* a validation that accepts every URL
validate_git_url_any(url) == TRUE

\* _validate_git_url (lines 328-338)
validate_git_url(url) ==
    \E p \in 1..Len(git_patterns) :
        /\ StartsWith(url, git_patterns[p][1])
        /\ MatchesNames(url, Len(git_patterns[p][1]) + 1, git_patterns[p][2])

\* install_from_git (lines 300-326)
install_from_git(git_url, editable, sc, outcome) ==
    IF ~validate_git_url(git_url)
    THEN [cmds |-> <<>>, reports |-> <<>>, success_count |-> 0, raised |-> FALSE,
          ret |-> FALSE]
    ELSE LET package == IF StartsWith(git_url, <<"g","i","t","+">>) THEN git_url
                        ELSE <<"g","i","t","+">> \o git_url
             iteration == InstallIteration(package, outcome,
                              InstallOptions(sc, TRUE, editable, FALSE, FALSE, FALSE))
         IN  [cmds |-> <<iteration.cmd>>, reports |-> <<iteration.report>>,
              success_count |-> IF iteration.counted THEN 1 ELSE 0,
              raised |-> InstallSingleResult(outcome) = "raise",
              ret |-> iteration.counted]

\* install_packages (lines 20-30): the names of its parameters
install_packages_parameters ==
    {"packages", "global_scope", "environment", "from_git", "editable", "upgrade",
     "force", "extras"}

\* commands/package.py: the keys of install_options, built by
\* _interactive_package_install (lines 350-358) or by install (lines 66-73)
install_option_names(interactive) ==
    IF interactive
    THEN {"global", "environment", "upgrade", "force", "extras", "from_git", "editable"}
    ELSE {"global", "environment", "from_git", "editable", "upgrade", "force"}

\* the install command (commands/package.py lines 50-87): it returns early
\* for an empty list; manager.install_packages(packages, **install_options)
\* raises TypeError, before the body runs, when a key is not a parameter
install_command(packages, interactive, o, outcomes) ==
    IF Len(packages) = 0
    THEN [raised |-> FALSE, cmds |-> <<>>, reports |-> <<>>, success_count |-> 0,
          ret |-> FALSE]
    ELSE IF ~(install_option_names(interactive) \subseteq install_packages_parameters)
    THEN [raised |-> TRUE, cmds |-> <<>>, reports |-> <<>>, success_count |-> 0,
          ret |-> FALSE]
    ELSE LET r == install_packages(packages, [o EXCEPT !.global_scope = FALSE], outcomes)
         IN  [raised |-> FALSE, cmds |-> r.cmds, reports |-> r.reports,
              success_count |-> r.success_count, ret |-> r.ret]

PMInit ==
    /\ pm_op = "idle"
    /\ pm_args = <<>>
    /\ pm_cmds = <<>>
    /\ pm_reports = <<>>
    /\ pm_count = 0
    /\ pm_ret = FALSE

\* a call of install_packages
PMInstall ==
    /\ pm_op = "idle"
    /\ \E packages \in PkgLists, sc \in Scopes,
          from_git, editable, upgrade, force, extras \in BOOLEAN :
         \E outcomes \in [1..Len(packages) -> Outcomes] :
         \E o \in {InstallOptions(sc, from_git, editable, upgrade, force, extras)} :
         \E r \in {install_packages(packages, o, outcomes)} :
            /\ pm_op' = "install"
            /\ UNCHANGED pm_others
            /\ pm_args' = [packages |-> packages, o |-> o, outcomes |-> outcomes]
            /\ pm_cmds' = r.cmds
            /\ pm_reports' = r.reports
            /\ pm_count' = r.success_count
            /\ pm_ret' = r.ret

\* a call of update_packages
PMUpdate ==
    /\ pm_op = "idle"
    /\ \E packages \in PkgLists, sc \in Scopes :
         \E outcomes \in [1..Len(packages) -> Outcomes] :
         \E r \in {update_packages(packages, sc.global_scope, sc.environment,
                                   sc.os_name, outcomes)} :
            /\ pm_op' = "update"
            /\ UNCHANGED pm_others
            /\ pm_args' = [packages |-> packages, o |-> sc, outcomes |-> outcomes]
            /\ pm_cmds' = r.cmds
            /\ pm_reports' = r.reports
            /\ pm_count' = r.success_count
            /\ pm_ret' = r.ret

\* a call of uninstall_packages, which returns or raises
PMUninstall ==
    /\ pm_op = "idle"
    /\ \E packages \in PkgLists, sc \in Scopes :
         \E outcomes \in [1..Len(packages) -> UninstallOutcomes] :
         \E r \in {uninstall_packages(packages, sc, outcomes)} :
            /\ pm_op' = IF r.raised THEN "uninstall_raised" ELSE "uninstall"
            /\ UNCHANGED pm_others
            /\ pm_args' = [packages |-> packages, o |-> sc, outcomes |-> outcomes]
            /\ pm_cmds' = r.cmds
            /\ pm_reports' = r.reports
            /\ pm_count' = r.success_count
            /\ pm_ret' = IF r.raised THEN FALSE ELSE r.ret

\* a call of install_from_git, which returns or raises
PMInstallFromGit ==
    /\ pm_op = "idle"
    /\ \E git_url \in GitUrls, editable \in BOOLEAN, sc \in Scopes :
         \E outcome \in (IF validate_git_url(git_url) THEN Outcomes ELSE {"ok"}) :
         \E r \in {install_from_git(git_url, editable, sc, outcome)} :
            /\ pm_op' = IF r.raised THEN "install_from_git_raised" ELSE "install_from_git"
            /\ UNCHANGED pm_others
            /\ pm_args' = [git_url |-> git_url, editable |-> editable, o |-> sc,
                           outcome |-> outcome]
            /\ pm_cmds' = r.cmds
            /\ pm_reports' = r.reports
            /\ pm_count' = r.success_count
            /\ pm_ret' = IF r.raised THEN FALSE ELSE r.ret

\* the install command is run
PMInstallCommand ==
    /\ pm_op = "idle"
    /\ \E packages \in PkgLists, interactive \in BOOLEAN, sc \in Scopes,
          upgrade, force \in BOOLEAN :
         \E o \in {InstallOptions(sc, FALSE, FALSE, upgrade, force, FALSE)} :
         \E outcomes \in (IF install_option_names(interactive)
                                \subseteq install_packages_parameters
                          THEN [1..Len(packages) -> Outcomes]
                          ELSE {[i \in 1..Len(packages) |-> "ok"]}) :
         \E r \in {install_command(packages, interactive, o, outcomes)} :
            /\ pm_op' = IF r.raised THEN "install_command_raised" ELSE "install_command"
            /\ UNCHANGED pm_others
            /\ pm_args' = [packages |-> packages, interactive |-> interactive, o |-> o,
                           outcomes |-> outcomes]
            /\ pm_cmds' = r.cmds
            /\ pm_reports' = r.reports
            /\ pm_count' = r.success_count
            /\ pm_ret' = r.ret

\* the call is over; the caller may call again
PMReturn ==
    /\ pm_op # "idle"
    /\ UNCHANGED pm_others
    /\ pm_op' = "idle"
    /\ pm_args' = <<>>
    /\ pm_cmds' = <<>>
    /\ pm_reports' = <<>>
    /\ pm_count' = 0
    /\ pm_ret' = FALSE

PMNext ==
    \/ PMInstall \/ PMUpdate \/ PMUninstall \/ PMInstallFromGit \/ PMInstallCommand
    \/ PMReturn

-----------------------------------------------------------------------------
(* PackageManager: properties *)

\* the identifier a command line ends with
LastArg(cmd) == cmd[Len(cmd)]

\* C4: install_packages makes exactly one installer invocation per package, in
\* input order, whatever the earlier invocations did (non-zero exit, timeout,
\* failure to launch); it returns true exactly when every invocation
\* succeeded, and every package whose invocation succeeded is counted and
\* reported as installed.
C4_OneInvocationPerPackage ==
    pm_op = "install" =>
        LET packages == pm_args.packages
            outcomes == pm_args.outcomes
        IN  /\ Len(pm_cmds) = Len(packages)
            /\ \A i \in 1..Len(packages) :
                  /\ LastArg(pm_cmds[i]) \in {packages[i], packages[i] \o <<"[","a","l","l","]">>}
                  /\ Contains(pm_cmds[i], <<<<"i","n","s","t","a","l","l">>>>)
            /\ pm_ret <=> (\A i \in 1..Len(packages) : outcomes[i] = "ok")
            /\ pm_count = Cardinality({i \in 1..Len(packages) : outcomes[i] = "ok"})
            /\ \A i \in 1..Len(packages) :
                  (outcomes[i] = "ok") <=> (pm_reports[i] = "installed")

\* C4 witness: the first of two packages fails to launch, the second installs
C4_Witness ==
    /\ pm_op = "install"
    /\ Len(pm_args.packages) = 2
    /\ pm_args.outcomes = <<"nolaunch", "ok">>
    /\ Len(pm_cmds) = 2
    /\ pm_reports = <<"error", "installed">>
    /\ pm_count = 1
    /\ pm_ret = FALSE

\* C5: update_packages(packages, scope) issues the command lines, and returns
\* the result, of install_packages(packages, scope, upgrade=True) with the
\* other options at their defaults.
C5_UpdateIsInstallUpgrade ==
    pm_op = "update" =>
        LET sc == pm_args.o
            o  == InstallOptions(sc, FALSE, FALSE, TRUE, FALSE, FALSE)
        IN  /\ pm_cmds = [i \in 1..Len(pm_args.packages) |->
                             InstallCmd(pm_args.packages[i], o)]
            /\ pm_ret = install_packages(pm_args.packages, o, pm_args.outcomes).ret

\* C5 witness: an update of two packages in a conda environment
C5_Witness ==
    /\ pm_op = "update"
    /\ Len(pm_args.packages) = 2
    /\ pm_args.o.environment = <<"c","o","n","d","a",":","m","l">>
    /\ pm_cmds[1] = <<<<"c","o","n","d","a">>, <<"r","u","n">>, <<"-","n">>, <<"m","l">>, <<"p","i","p">>, <<"i","n","s","t","a","l","l">>, <<"-","-","u","p","g","r","a","d","e">>,
                      pm_args.packages[1]>>
    /\ pm_ret

\* C20: uninstall_packages returns; it has made exactly one uninstall
\* invocation per package, in input order, whatever the earlier invocations did
\* (non-zero exit, failure to launch), and it returns true exactly when every
\* invocation succeeded.
C20_UninstallEachIndependently ==
    pm_op \in {"uninstall", "uninstall_raised"} =>
        /\ pm_op = "uninstall"
        /\ pm_cmds = [i \in 1..Len(pm_args.packages) |->
                         UninstallCmd(pm_args.packages[i], pm_args.o)]
        /\ pm_ret <=> (\A i \in 1..Len(pm_args.packages) : pm_args.outcomes[i] = "ok")

\* the URLs of the model that have one of the whitelisted shapes: https to
\* github.com, gitlab.com or bitbucket.org with an owner and a repository,
\* git@host:owner/repo, ssh://git@host/owner/repo
WhitelistedUrls ==
    {<<"h","t","t","p","s",":","/","/","g","i","t","h","u","b",".","c","o","m","/","a","/","b">>, <<"h","t","t","p","s",":","/","/","g","i","t","h","u","b",".","c","o","m","/","a","/","b",".","g","i","t">>,
     <<"h","t","t","p","s",":","/","/","g","i","t","l","a","b",".","c","o","m","/","a","-","b","/","c","_","d">>, <<"h","t","t","p","s",":","/","/","b","i","t","b","u","c","k","e","t",".","o","r","g","/","a","/","b">>,
     <<"g","i","t","@","g","i","t","h","u","b",".","c","o","m",":","a","/","b",".","g","i","t">>, <<"s","s","h",":","/","/","g","i","t","@","h",".","i","o","/","a","/","b">>,
     <<"h","t","t","p","s",":","/","/","g","i","t","h","u","b",".","c","o","m","/","a","/","b","\n">>}

\* C21: for a URL that has none of the whitelisted shapes install_from_git
\* returns false and makes no installer invocation; for a URL that has one it
\* makes exactly one installer invocation, an install whose identifier is the
\* URL prefixed with "git+".
C21_GitUrlWhitelist ==
    pm_op \in {"install_from_git", "install_from_git_raised"} =>
        IF pm_args.git_url \in WhitelistedUrls
        THEN /\ Len(pm_cmds) = 1
             /\ LastArg(pm_cmds[1]) = <<"g","i","t","+">> \o pm_args.git_url
             /\ Contains(pm_cmds[1], <<<<"i","n","s","t","a","l","l">>>>)
        ELSE /\ pm_op = "install_from_git"
             /\ pm_cmds = <<>>
             /\ ~pm_ret

\* C21 witness: an editable install from a git@ URL into a virtual environment
C21_Witness ==
    /\ pm_op = "install_from_git"
    /\ pm_args.git_url = <<"g","i","t","@","g","i","t","h","u","b",".","c","o","m",":","a","/","b",".","g","i","t">>
    /\ pm_args.editable
    /\ pm_cmds = <<<<<<"/","w","/","b","i","n","/","p","i","p">>, <<"i","n","s","t","a","l","l">>, <<"-","e">>, <<"g","i","t","+","g","i","t","@","g","i","t","h","u","b",".","c","o","m",":","a","/","b",".","g","i","t">>>>>>
    /\ pm_ret


\* the four scope cases of a pair (global flag, environment string)
CondaNamed(sc) == sc.environment # <<>> /\ StartsWith(sc.environment, <<"c","o","n","d","a",":">>)
VenvByPath(sc) == sc.environment # <<>> /\ StartsWith(sc.environment, <<"v","e","n","v",":">>)
ScopeCases(sc) ==
    {c \in {"conda", "venv", "global", "current"} :
        \/ c = "conda" /\ CondaNamed(sc)
        \/ c = "venv" /\ ~CondaNamed(sc) /\ VenvByPath(sc)
        \/ c = "global" /\ ~CondaNamed(sc) /\ ~VenvByPath(sc) /\ sc.global_scope
        \/ c = "current" /\ ~CondaNamed(sc) /\ ~VenvByPath(sc) /\ ~sc.global_scope}

\* the installer prefix of a scope case
CasePrefix(c, sc) ==
    CASE c = "conda"   -> <<<<"c","o","n","d","a">>, <<"r","u","n">>, <<"-","n">>, Drop(sc.environment, 7), <<"p","i","p">>>>
      [] c = "venv"    -> <<PathJoin2(Drop(sc.environment, 6),
                                      IF sc.os_name = "nt" THEN <<"S","c","r","i","p","t","s">> ELSE <<"b","i","n">>,
                                      IF sc.os_name = "nt" THEN <<"p","i","p",".","e","x","e">> ELSE <<"p","i","p">>,
                                      sc.os_name)>>
      [] c = "global"  -> <<SysExecutable, <<"-","m">>, <<"p","i","p">>>>
      [] c = "current" -> <<<<"p","i","p">>>>

\* C27: for the pair (global flag, environment string) of a call of
\* install_packages or uninstall_packages exactly one scope case applies, with
\* the precedence conda-named, venv-by-path, global, current; every command
\* the call ran starts with the prefix of that case followed by the
\* subcommand; and the prefix built for install is the prefix
\* _get_pip_command returns for the same pair.
C27_ScopePrecedence ==
    pm_op \in {"install", "uninstall", "uninstall_raised"} =>
        LET sc == [global_scope |-> pm_args.o.global_scope,
                   environment |-> pm_args.o.environment, os_name |-> pm_args.o.os_name]
        IN  /\ Cardinality(ScopeCases(sc)) = 1
            /\ \A c \in ScopeCases(sc) :
                  /\ InstallPrefix(sc.global_scope, sc.environment, sc.os_name)
                        = CasePrefix(c, sc)
                  /\ get_pip_command(sc.global_scope, sc.environment, sc.os_name)
                        = CasePrefix(c, sc)
                  /\ \A k \in 1..Len(pm_cmds) :
                        /\ Len(pm_cmds[k]) > Len(CasePrefix(c, sc))
                        /\ SubSeq(pm_cmds[k], 1, Len(CasePrefix(c, sc)) + 1)
                              = CasePrefix(c, sc)
                                \o <<IF pm_op = "install" THEN <<"i","n","s","t","a","l","l">> ELSE <<"u","n","i","n","s","t","a","l","l">>>>

\* C27 witness: an uninstall with the global flag and a venv path has run the
\* venv's pip
C27_Witness ==
    /\ pm_op = "uninstall"
    /\ pm_args.o.global_scope
    /\ pm_args.o.environment = <<"v","e","n","v",":","/","w">>
    /\ pm_args.o.os_name = "posix"
    /\ Len(pm_cmds) > 0
    /\ pm_cmds[1][1] = <<"/","w","/","b","i","n","/","p","i","p">>
    /\ pm_cmds[1][2] = <<"u","n","i","n","s","t","a","l","l">>

\* C30: in interactive and in non-interactive mode, for every non-empty
\* package list the install command's call of install_packages is accepted
\* and each package gets one installer invocation.
C30_InstallCommandReachesLoop ==
    (pm_op \in {"install_command", "install_command_raised"}
        /\ Len(pm_args.packages) > 0) =>
       /\ pm_op = "install_command"
       /\ Len(pm_cmds) = Len(pm_args.packages)
       /\ \A i \in 1..Len(pm_cmds) :
             pm_cmds[i][Len(pm_cmds[i])] = pm_args.packages[i]
-----------------------------------------------------------------------------
(* EnvGenerator (utils/env_generator.py) *)

\* the most variables an env_vars dictionary holds
MaxEnvVars == 2

\* length of _generate_secret_key (line 28)
SecretLength == 50

\* string.ascii_letters + string.digits + "!@#$%^&*" (line 30)
SecretAlphabet ==
    <<"a","b","c","d","e","f","g","h","i","j","k","l","m","n","o","p","q","r","s","t","u","v","w","x","y","z","A","B","C","D","E","F","G","H","I","J","K","L","M","N","O","P","Q","R","S","T","U","V","W","X","Y","Z">> \o <<"0","1","2","3","4","5","6","7","8","9">> \o <<"!","@","#","$","%","^","&","*">>

\* the placeholder values of line 21
Placeholders ==
    {<<"y","o","u","r","-","s","e","c","r","e","t","-","k","e","y","-","h","e","r","e">>, <<"d","j","a","n","g","o","-","i","n","s","e","c","u","r","e","-","c","h","a","n","g","e","-","m","e">>,
     <<"d","j","a","n","g","o","-","i","n","s","e","c","u","r","e","-","c","h","a","n","g","e","-","m","e","-","i","n","-","p","r","o","d","u","c","t","i","o","n">>}

\* the variable names and values env_vars dictionaries are made of
EnvKeys == {<<"S","E","C","R","E","T","_","K","E","Y">>, <<"A","p","i","_","K","e","y">>, <<"T","O","K","E","N","_","S","E","C","R","E","T","S">>, <<"P","O","R","T">>}
EnvValues == Placeholders \union {<<"8","0","0","0">>}

\* env_vars dictionaries in insertion order: sequences of <<key, value>> with
\* distinct keys
EnvVarDicts ==
    {d \in SeqsUpTo(EnvKeys \X EnvValues, MaxEnvVars) :
        \A i, j \in 1..Len(d) : d[i][1] = d[j][1] => i = j}

\* one string _generate_secret_key can return: SecretLength characters of the
\* alphabet; secrets.choice draws each one, here the walk from start by step
SecretKey(start, step) ==
    [i \in 1..SecretLength |->
        SecretAlphabet[((start + (i - 1) * step) % Len(SecretAlphabet)) + 1]]

\* the strings _generate_secret_key returns in the model
RandomKeys == {SecretKey(0, 1), SecretKey(45, 3)}

\* a test that is case-sensitive
NeedsSecretCaseSensitive(key, value) ==
    /\ Contains(key, <<"s","e","c","r","e","t">>) \/ Contains(key, <<"k","e","y">>)
    /\ value \in Placeholders

\* lines 20-21: whether the value is replaced by a generated one
NeedsSecret(key, value) ==
    /\ Contains(Lower(key), <<"s","e","c","r","e","t">>) \/ Contains(Lower(key), <<"k","e","y">>)
    /\ value \in Placeholders

\* lines 18-24: the line appended for one variable; rnd is what
\* _generate_secret_key returns if it is called
EnvLine(key, value, rnd) ==
    key \o <<"=">> \o (IF NeedsSecret(key, value) THEN rnd ELSE value)

\* generate_env_file (lines 12-26): the text written; rnds[i] is what
\* _generate_secret_key returns for the i-th variable if it is called
generate_env_file(env_vars, rnds) ==
    Join(<<<<"#"," ","E","n","v","i","r","o","n","m","e","n","t"," ","v","a","r","i","a","b","l","e","s"," ","f","o","r"," ","t","h","e"," ","p","r","o","j","e","c","t">>, <<>>>>
         \o [i \in 1..Len(env_vars) |-> EnvLine(env_vars[i][1], env_vars[i][2], rnds[i])],
         <<"\n">>)
    \o <<"\n">>

EGInit ==
    /\ eg_phase = "idle"
    /\ eg_env_vars = <<>>
    /\ eg_file = <<>>

\* a call of generate_env_file
EGGenerate ==
    /\ eg_phase = "idle"
    /\ \E env_vars \in EnvVarDicts :
         \E rnds \in [1..Len(env_vars) -> RandomKeys] :
            \* _generate_secret_key is only called for the variables that need it
            /\ \A i \in 1..Len(env_vars) :
                  ~NeedsSecret(env_vars[i][1], env_vars[i][2]) => rnds[i] = SecretKey(0, 1)
            /\ eg_phase' = "done"
            /\ eg_env_vars' = env_vars
            /\ eg_file' = generate_env_file(env_vars, rnds)
    /\ UNCHANGED eg_others

\* the call has returned
EGReturn ==
    /\ eg_phase = "done"
    /\ eg_phase' = "idle"
    /\ eg_env_vars' = <<>>
    /\ eg_file' = <<>>
    /\ UNCHANGED eg_others

EGNext == EGGenerate \/ EGReturn

-----------------------------------------------------------------------------
(* EnvGenerator: properties *)

\* the positions of the line feeds of a text
LineEnds(text) == {i \in 1..Len(text) : text[i] = "\n"}

\* the k-th line of a text that ends with a line feed
RECURSIVE NthLineEnd(_, _)
NthLineEnd(text, k) ==
    IF k = 0 THEN 0
    ELSE LET prev == NthLineEnd(text, k - 1)
         IN  CHOOSE i \in LineEnds(text) :
                /\ i > prev
                /\ \A j \in LineEnds(text) : j > prev => i <= j

NthLine(text, k) == SubSeq(text, NthLineEnd(text, k - 1) + 1, NthLineEnd(text, k) - 1)

\* the name contains "secret" or "key", whatever the case of its letters
NameIsSecret(key) ==
    \E w \in {<<"s","e","c","r","e","t">>, <<"k","e","y">>} :
        \E i \in 1..Len(key) :
            /\ i + Len(w) - 1 <= Len(key)
            /\ \A k \in 1..Len(w) : key[i + k - 1] \in {w[k], UpperChar(w[k])}

\* C7: in the .env file, after the two header lines, there is one line per
\* variable in template order; a variable whose name contains "secret" or
\* "key" (case-insensitively) and whose value is a known placeholder is written
\* with a value of 50 characters of the secret alphabet and no placeholder
\* appears in its line; every other variable is written KEY=value unchanged.
C7_EnvFileSecrets ==
    eg_phase = "done" =>
        /\ eg_file # <<>> /\ eg_file[Len(eg_file)] = "\n"
        /\ Cardinality(LineEnds(eg_file)) = 2 + Len(eg_env_vars)
        /\ \A i \in 1..Len(eg_env_vars) :
              LET key   == eg_env_vars[i][1]
                  value == eg_env_vars[i][2]
                  line  == NthLine(eg_file, i + 2)
              IN  IF NameIsSecret(key) /\ value \in Placeholders
                  THEN /\ SubSeq(line, 1, Len(key) + 1) = key \o <<"=">>
                       /\ Len(line) = Len(key) + 1 + 50
                       /\ \A k \in (Len(key) + 2)..Len(line) :
                             \E a \in 1..Len(SecretAlphabet) : SecretAlphabet[a] = line[k]
                       /\ \A p \in Placeholders : ~Contains(line, p)
                  ELSE line = key \o <<"=">> \o value

\* C7 witness: a mixed-case key name with a placeholder gets a generated
\* value, and a plain variable after it is written unchanged
C7_Witness ==
    /\ eg_phase = "done"
    /\ eg_env_vars = <<<<<<"A","p","i","_","K","e","y">>, <<"d","j","a","n","g","o","-","i","n","s","e","c","u","r","e","-","c","h","a","n","g","e","-","m","e">>>>, <<<<"P","O","R","T">>, <<"8","0","0","0">>>>>>
    /\ Len(NthLine(eg_file, 3)) = 58
    /\ NthLine(eg_file, 4) = <<"P","O","R","T","=","8","0","0","0">>

-----------------------------------------------------------------------------
(* PythonVersionManager (utils/python_version.py) *)

\* the most interpreters, environments or versions one discovery source reports
MaxReports == 2

\* the version strings interpreters report
Versions == {<<"3",".","1","1",".","7">>, <<"3",".","1","2",".","1">>}

\* the paths `which` prints for the system interpreters
SystemPaths == {<<"/","u","/","p","y","3","1","1">>, <<"/","u","/","p","y","3","1","2">>}

\* the names of the conda environments of the host
CondaEnvNames == {<<"m","l">>, <<"w","e","b">>}

\* what asking a conda environment's interpreter for its version can give: a
\* version; "missing" when the environment holds no interpreter; "nomatch" when
\* the output is not a version; "raise" when the run raises (timeout)
ProbeMissing == <<"missing">>
ProbeNoMatch == <<"nomatch">>
ProbeRaise == <<"raise">>
CondaProbes == Versions \union {ProbeMissing, ProbeNoMatch, ProbeRaise}

\* get_conda_environments (lines 124-160), the loop over the listed paths:
\* listing[i] is <<env_name, probe>>
RECURSIVE CondaEnvLoop(_, _, _)
CondaEnvLoop(environments, listing, i) ==
    IF i > Len(listing) THEN environments
    ELSE CondaEnvLoop(
            IF listing[i][2] \in Versions
            THEN DictSet(environments, listing[i][1], listing[i][2])
            ELSE IF listing[i][2] = ProbeRaise
            THEN DictSet(environments, listing[i][1], <<"u","n","k","n","o","w","n">>)
            ELSE environments,
            listing, i + 1)

\* get_conda_environments (lines 124-160): env_name -> version
get_conda_environments(host) ==
    IF ~host.conda_available THEN <<>>
    ELSE IF ~host.conda_list_ok THEN <<>>
    ELSE CondaEnvLoop(<<>>, host.conda_listing, 1)

\* _get_conda_python_versions (lines 239-242): version -> env_name
get_conda_python_versions(host) ==
    DictSetAll(<<>>,
               [i \in 1..Len(get_conda_environments(host)) |->
                   <<get_conda_environments(host)[i][2], get_conda_environments(host)[i][1]>>],
               1)

\* _find_system_python_versions (lines 211-237): version -> path, from the
\* probes that answered, in the order of the patterns
find_system_python_versions(host) == DictSetAll(<<>>, host.system_hits, 1)

\* _get_pyenv_versions (lines 244-257)
get_pyenv_versions(host) == host.pyenv_versions

\* the labels of lines 28, 34, 41 and 48
CurrentLabel(version) == version \o <<" ","(","c","u","r","r","e","n","t"," ","s","y","s","t","e","m",")">>
SystemLabel(version, path) == version \o <<" ","(","s","y","s","t","e","m",":"," ">> \o path \o <<")">>
CondaLabel(version, env_name) == version \o <<" ","(","c","o","n","d","a",":"," ">> \o env_name \o <<")">>
PyenvLabel(version) == version \o <<" ","(","p","y","e","n","v",")">>

\* the label a source gives a version it found with a detail
SourceLabel(source, version, detail) ==
    CASE source = "system" -> SystemLabel(version, detail)
      [] source = "conda"  -> CondaLabel(version, detail)
      [] source = "pyenv"  -> PyenvLabel(version)

\* `if version not in versions: versions[version] = label` for each version of
\* found[i:], a dict version -> detail
RECURSIVE AddNewVersions(_, _, _, _)
AddNewVersions(versions, found, i, source) ==
    IF i > Len(found) THEN versions
    ELSE AddNewVersions(
            IF found[i][1] \in DictKeys(versions) THEN versions
            ELSE Append(versions,
                        <<found[i][1], SourceLabel(source, found[i][1], found[i][2])>>),
            found, i + 1, source)

\* the same loop without the `not in versions` test
RECURSIVE AddVersionsOverwriting(_, _, _, _)
AddVersionsOverwriting(versions, found, i, source) ==
    IF i > Len(found) THEN versions
    ELSE AddVersionsOverwriting(
            DictSet(versions, found[i][1], SourceLabel(source, found[i][1], found[i][2])),
            found, i + 1, source)

\* lines 26-28
VersionsAfterCurrent(host) ==
    <<<<host.current, CurrentLabel(host.current)>>>>

\* lines 30-34
VersionsAfterSystem(host) ==
    AddNewVersions(VersionsAfterCurrent(host), find_system_python_versions(host), 1,
                   "system")

\* lines 36-41, without the test of line 40
VersionsAfterCondaOverwriting(host) ==
    IF host.conda_available
    THEN AddVersionsOverwriting(VersionsAfterSystem(host),
                                get_conda_python_versions(host), 1, "conda")
    ELSE VersionsAfterSystem(host)

\* lines 36-41
VersionsAfterConda(host) ==
    IF host.conda_available
    THEN AddNewVersions(VersionsAfterSystem(host), get_conda_python_versions(host), 1,
                        "conda")
    ELSE VersionsAfterSystem(host)

\* lines 43-48
VersionsAfterPyenv(host) ==
    IF host.pyenv_available
    THEN AddNewVersions(VersionsAfterConda(host),
                        [i \in 1..Len(get_pyenv_versions(host)) |->
                            <<get_pyenv_versions(host)[i], <<>>>>],
                        1, "pyenv")
    ELSE VersionsAfterConda(host)

\* the choices of lines 50-55, from the versions dict
ChoicesOf(versions) == [i \in 1..Len(versions) |-> versions[i][2]]

\* get_available_versions (lines 22-55)
get_available_versions(host) == ChoicesOf(VersionsAfterPyenv(host))

\* sequences over S of length at most n without repetition
DistinctSeqsUpTo(S, n) ==
    {s \in SeqsUpTo(S, n) : \A i, j \in 1..Len(s) : s[i] = s[j] => i = j}

\* what conda can report: <<conda_available, conda_list_ok, conda_listing>>.
\* Without the tool, or when its listing does not parse, there is no listing;
\* the listing names each environment once.
CondaReports ==
    {<<FALSE, TRUE, <<>>>>, <<TRUE, FALSE, <<>>>>}
    \union
    {<<TRUE, TRUE, l>> : l \in
        {l \in SeqsUpTo(CondaEnvNames \X CondaProbes, MaxReports) :
            \A i, j \in 1..Len(l) : l[i][1] = l[j][1] => i = j}}

\* what pyenv can report: <<pyenv_available, pyenv_versions>>; `pyenv versions`
\* prints each installed version once
PyenvReports ==
    {<<FALSE, <<>>>>}
    \union
    {<<TRUE, l>> : l \in DistinctSeqsUpTo(Versions \union {<<"3",".","9",".","1","8">>}, MaxReports)}

\* what a host reports: the running interpreter's version; the system
\* interpreters that answered, <<version, path>> in pattern order; conda's
\* and pyenv's reports
Host(current, system_hits, conda, pyenv) ==
    [current         |-> current,
     system_hits     |-> system_hits,
     conda_available |-> conda[1],
     conda_list_ok   |-> conda[2],
     conda_listing   |-> conda[3],
     pyenv_available |-> pyenv[1],
     pyenv_versions  |-> pyenv[2]]

PVInit ==
    /\ pv_phase = "idle"
    /\ pv_host = <<>>
    /\ pv_choices = <<>>

\* a call of get_available_versions
PVGetAvailable ==
    /\ pv_phase = "idle"
    /\ \E current \in Versions,
          system_hits \in SeqsUpTo(Versions \X SystemPaths, MaxReports),
          conda \in CondaReports, pyenv \in PyenvReports :
         \E host \in {Host(current, system_hits, conda, pyenv)} :
            /\ pv_phase' = "done"
            /\ pv_host' = host
            /\ pv_choices' = get_available_versions(host)
    /\ UNCHANGED pv_others

\* the call has returned
PVReturn ==
    /\ pv_phase = "done"
    /\ pv_phase' = "idle"
    /\ pv_host' = <<>>
    /\ pv_choices' = <<>>
    /\ UNCHANGED pv_others

PVNext == PVGetAvailable \/ PVReturn

-----------------------------------------------------------------------------
(* PythonVersionManager: properties *)

\* the versions each source reports
ReportedBySystem(host) == {host.system_hits[i][1] : i \in 1..Len(host.system_hits)}
ReportedByConda(host) ==
    {IF host.conda_listing[i][2] = ProbeRaise THEN <<"u","n","k","n","o","w","n">> ELSE host.conda_listing[i][2] :
        i \in {k \in 1..Len(host.conda_listing) :
                  host.conda_listing[k][2] \in Versions \union {ProbeRaise}}}
ReportedByPyenv(host) == {host.pyenv_versions[i] : i \in 1..Len(host.pyenv_versions)}
Reported(host) ==
    {host.current} \union ReportedBySystem(host) \union ReportedByConda(host)
    \union ReportedByPyenv(host)

\* the entries of the returned list that are about a version
EntriesFor(version) ==
    {i \in 1..Len(pv_choices) : StartsWith(pv_choices[i], version \o <<" ","(">>)}

\* C8: get_available_versions returns exactly one entry per reported version,
\* labelled by the highest-priority source that reported it (current
\* interpreter > system interpreters > conda > pyenv); the current
\* interpreter's version is always there, labelled as current.
C8_OneEntryPerVersion ==
    pv_phase = "done" =>
        /\ Len(pv_choices) = Cardinality(Reported(pv_host))
        /\ pv_host.current \o <<" ","(","c","u","r","r","e","n","t"," ","s","y","s","t","e","m",")">> \in
              {pv_choices[i] : i \in 1..Len(pv_choices)}
        /\ \A v \in Reported(pv_host) :
              /\ Cardinality(EntriesFor(v)) = 1
              /\ \A i \in EntriesFor(v) :
                    IF v = pv_host.current
                    THEN pv_choices[i] = v \o <<" ","(","c","u","r","r","e","n","t"," ","s","y","s","t","e","m",")">>
                    ELSE IF v \in ReportedBySystem(pv_host)
                    THEN StartsWith(pv_choices[i], v \o <<" ","(","s","y","s","t","e","m",":"," ">>)
                    ELSE IF v \in ReportedByConda(pv_host)
                    THEN StartsWith(pv_choices[i], v \o <<" ","(","c","o","n","d","a",":"," ">>)
                    ELSE pv_choices[i] = v \o <<" ","(","p","y","e","n","v",")">>

\* C8 witness: the current interpreter and a conda environment both report
\* 3.11.7, a system interpreter and pyenv both report 3.12.1
C8_Witness ==
    /\ pv_phase = "done"
    /\ pv_host.current = <<"3",".","1","1",".","7">>
    /\ <<"3",".","1","1",".","7">> \in ReportedByConda(pv_host)
    /\ <<"3",".","1","2",".","1">> \in ReportedBySystem(pv_host) \intersect ReportedByPyenv(pv_host)
    /\ pv_choices = <<<<"3",".","1","1",".","7"," ","(","c","u","r","r","e","n","t"," ","s","y","s","t","e","m",")">>, <<"3",".","1","2",".","1"," ","(","s","y","s","t","e","m",":"," ","/","u","/","p","y","3","1","2",")">>>>

-----------------------------------------------------------------------------
(* PythonVersionManager: get_python_executable (utils/python_version.py) *)

\* a path `which python3.11` prints when pyenv's shims are on PATH
ShimPath == <<"/","h","/",".","p","y","e","n","v","/","s","h","i","m","s","/","p","y","t","h","o","n","3",".","1","1">>

\* the labels get_python_executable is called with: labels that
\* get_available_versions builds, and strings it does not build
VersionLabels ==
    {CurrentLabel(<<"3",".","1","1",".","7">>), SystemLabel(<<"3",".","1","2",".","1">>, <<"/","u","/","p","y","3","1","2">>),
     SystemLabel(<<"3",".","1","1",".","7">>, ShimPath),
     CondaLabel(<<"3",".","1","1",".","7">>, <<"m","l">>), PyenvLabel(<<"3",".","1","2",".","1">>),
     <<"3",".","1","1",".","7">>, <<>>, <<"3",".","1","1",".","7"," ","(","c","o","n","d","a",":","m","l",")">>, <<"(","c","o","n","d","a",":"," ",")">>, <<"p","y","e","n","v">>, <<"(","s","y","s","t","e","m",":"," ",")">>,
     <<"3",".","9"," ","(","p","y","e","n","v"," ","c","o","n","d","a",":"," ","m","l",")">>}

\* what `conda info --envs --json` does on the host, as <<run, envs, files>>:
\* the run starts no process ("nolaunch"), times out ("timeout"), prints what
\* is not JSON ("garbage") or prints a document with the paths envs; files are
\* the interpreter files that exist
CondaInfoOutcomes ==
    {<<"nolaunch", <<>>, {}>>, <<"timeout", <<>>, {}>>, <<"garbage", <<>>, {}>>,
     <<"json", <<>>, {}>>, <<"json", <<<<"/","c","/","w","e","b">>>>, {<<"/","c","/","w","e","b","/","b","i","n","/","p","y","t","h","o","n">>}>>,
     <<"json", <<<<"/","c","/","w","e","b">>, <<"/","c","/","m","l">>>>, {}>>,
     <<"json", <<<<"/","c","/","w","e","b">>, <<"/","c","/","m","l">>>>, {<<"/","c","/","m","l","/","b","i","n","/","p","y","t","h","o","n">>}>>}

\* what `pyenv prefix <version>` does on the host, as <<run, prefix, files>>:
\* "nonzero" when pyenv does not have the version
PyenvPrefixOutcomes ==
    {<<"nolaunch", <<>>, {}>>, <<"timeout", <<>>, {}>>, <<"nonzero", <<>>, {}>>,
     <<"ok", <<"/","p","/","3",".","1","2",".","1">>, {}>>, <<"ok", <<"/","p","/","3",".","1","2",".","1">>, {<<"/","p","/","3",".","1","2",".","1","/","b","i","n","/","p","y","t","h","o","n">>}>>}

\* what a call hands back: a path, or an exception
Returned(path) == [raised |-> FALSE, path |-> path]
Raised == [raised |-> TRUE, path |-> <<>>]

\* Path(p).name: the text after the last "/"
PathName(p) ==
    IF \E i \in 1..Len(p) : p[i] = "/"
    THEN Drop(p, (CHOOSE i \in 1..Len(p) :
                     p[i] = "/" /\ \A j \in (i + 1)..Len(p) : p[j] # "/") + 1)
    ELSE p

\* re.search(prefix + '([^)]+)', s): <<>> when there is no match, else <<group 1>>
SearchAfter(s, prefix) ==
    LET Starts(i) == MatchAt(s, prefix, i) /\ i + Len(prefix) <= Len(s)
                     /\ s[i + Len(prefix)] # ")"
    IN  IF \E i \in 1..Len(s) : Starts(i)
        THEN LET i == CHOOSE i \in 1..Len(s) : Starts(i) /\ \A j \in 1..(i - 1) : ~Starts(j)
                 b == i + Len(prefix)
                 e == IF \E k \in b..Len(s) : s[k] = ")"
                      THEN (CHOOSE k \in b..Len(s) :
                               s[k] = ")" /\ \A j \in b..(k - 1) : s[j] # ")") - 1
                      ELSE Len(s)
             IN  <<SubSeq(s, b, e)>>
        ELSE <<>>

\* \d
IsDigit(c) == Ord[c] >= 48 /\ Ord[c] <= 57

\* the end of the longest run of digits of s that starts at i, i - 1 when s[i]
\* is not a digit
DigitsEnd(s, i) ==
    IF \E k \in i..Len(s) : ~IsDigit(s[k])
    THEN (CHOOSE k \in i..Len(s) : ~IsDigit(s[k]) /\ \A j \in i..(k - 1) : IsDigit(s[j])) - 1
    ELSE Len(s)

\* where a match of \d+\.\d+\.\d+ that starts at i ends, 0 when there is none
VersionEnd(s, i) ==
    LET a == DigitsEnd(s, i)
        b == DigitsEnd(s, a + 2)
        c == DigitsEnd(s, b + 2)
    IN  IF a >= i /\ a + 1 <= Len(s) /\ s[a + 1] = "." /\ b >= a + 2
           /\ b + 1 <= Len(s) /\ s[b + 1] = "." /\ c >= b + 2
        THEN c ELSE 0

\* re.search(r'(\d+\.\d+\.\d+)', s): <<>> when there is no match, else <<group 1>>
SearchVersion(s) ==
    IF \E i \in 1..Len(s) : VersionEnd(s, i) > 0
    THEN LET i == CHOOSE i \in 1..Len(s) :
                     VersionEnd(s, i) > 0 /\ \A j \in 1..(i - 1) : VersionEnd(s, j) = 0
         IN  <<SubSeq(s, i, VersionEnd(s, i))>>
    ELSE <<>>

\* lines 301-311: the first environment of that name, in the order of the
\* listing, whose interpreter file exists
RECURSIVE CondaPythonIn(_, _, _, _)
CondaPythonIn(envs, files, env_name, i) ==
    IF i > Len(envs) THEN <<>>
    ELSE IF PathName(envs[i]) = env_name /\ (envs[i] \o <<"/","b","i","n","/","p","y","t","h","o","n">>) \in files
    THEN <<envs[i] \o <<"/","b","i","n","/","p","y","t","h","o","n">>>>
    ELSE IF PathName(envs[i]) = env_name /\ (envs[i] \o <<"/","S","c","r","i","p","t","s","/","p","y","t","h","o","n",".","e","x","e">>) \in files
    THEN <<envs[i] \o <<"/","S","c","r","i","p","t","s","/","p","y","t","h","o","n",".","e","x","e">>>>
    ELSE CondaPythonIn(envs, files, env_name, i + 1)

\* _get_conda_python_executable (lines 291-315) without the handler of lines 312-313
get_conda_python_executable_unguarded(env_name, info) ==
    IF info[1] # "json" THEN Raised
    ELSE IF Len(CondaPythonIn(info[2], info[3], env_name, 1)) > 0
    THEN Returned(CondaPythonIn(info[2], info[3], env_name, 1)[1])
    ELSE Returned(SysExecutable)

\* _get_conda_python_executable (lines 291-315): a run that starts no process
\* or times out, and output that json.loads rejects, raise inside the try
get_conda_python_executable(env_name, info) ==
    IF info[1] # "json" THEN Returned(SysExecutable)
    ELSE IF Len(CondaPythonIn(info[2], info[3], env_name, 1)) > 0
    THEN Returned(CondaPythonIn(info[2], info[3], env_name, 1)[1])
    ELSE Returned(SysExecutable)

\* _get_pyenv_python_executable (lines 317-332)
get_pyenv_python_executable(version, prefix) ==
    IF prefix[1] = "ok" /\ (prefix[2] \o <<"/","b","i","n","/","p","y","t","h","o","n">>) \in prefix[3]
    THEN Returned(prefix[2] \o <<"/","b","i","n","/","p","y","t","h","o","n">>)
    ELSE Returned(SysExecutable)

\* get_python_executable (lines 167-191)
get_python_executable(version_description, host) ==
    IF Contains(version_description, <<"c","o","n","d","a",":">>)
    THEN IF Len(SearchAfter(version_description, <<"c","o","n","d","a",":"," ">>)) > 0
         THEN get_conda_python_executable(
                  SearchAfter(version_description, <<"c","o","n","d","a",":"," ">>)[1], host.conda_info)
         ELSE Returned(SysExecutable)
    ELSE IF Contains(version_description, <<"p","y","e","n","v">>)
    THEN IF Len(SearchVersion(version_description)) > 0
         THEN get_pyenv_python_executable(SearchVersion(version_description)[1],
                                          host.pyenv_prefix)
         ELSE Returned(SysExecutable)
    ELSE IF Contains(version_description, <<"s","y","s","t","e","m",":">>)
            /\ Len(SearchAfter(version_description, <<"s","y","s","t","e","m",":"," ">>)) > 0
    THEN Returned(SearchAfter(version_description, <<"s","y","s","t","e","m",":"," ">>)[1])
    ELSE Returned(SysExecutable)

PXInit ==
    /\ px_phase = "idle"
    /\ px_label = <<>>
    /\ px_host = <<>>
    /\ px_result = <<>>

\* get_python_executable is called on some host
PXGetExecutable ==
    /\ px_phase = "idle"
    /\ \E version_description \in VersionLabels, conda_info \in CondaInfoOutcomes,
          pyenv_prefix \in PyenvPrefixOutcomes :
         \E host \in {[conda_info |-> conda_info, pyenv_prefix |-> pyenv_prefix]} :
            /\ px_phase' = "done"
            /\ px_label' = version_description
            /\ px_host' = host
            /\ px_result' = get_python_executable(version_description, host)
    /\ UNCHANGED px_others

\* the call is over
PXReturn ==
    /\ px_phase = "done"
    /\ px_phase' = "idle"
    /\ px_label' = <<>>
    /\ px_host' = <<>>
    /\ px_result' = <<>>
    /\ UNCHANGED px_others

PXNext == PXGetExecutable \/ PXReturn

-----------------------------------------------------------------------------
(* PythonVersionManager: properties of get_python_executable *)

\* the label carries the conda tag and names an environment
CondaTagged(label) == Contains(label, <<"c","o","n","d","a",":"," ">>) /\ Len(SearchAfter(label, <<"c","o","n","d","a",":"," ">>)) > 0

\* the label carries the pyenv tag and a version, and no conda tag
PyenvTagged(label) ==
    ~Contains(label, <<"c","o","n","d","a",":">>) /\ Contains(label, <<"p","y","e","n","v">>) /\ Len(SearchVersion(label)) > 0

\* the label carries the system tag and a path, and no other tag
SystemTagged(label) ==
    /\ ~Contains(label, <<"c","o","n","d","a",":">>) /\ ~Contains(label, <<"p","y","e","n","v">>)
    /\ Contains(label, <<"s","y","s","t","e","m",":"," ">>) /\ Len(SearchAfter(label, <<"s","y","s","t","e","m",":"," ">>)) > 0

\* the conda lookup of the host fails for the environment: no process, a
\* timeout, output that is not JSON, no environment of that name, or no
\* interpreter file in it
CondaLookupFails(host, env_name) ==
    \/ host.conda_info[1] # "json"
    \/ \A i \in 1..Len(host.conda_info[2]) :
          \/ PathName(host.conda_info[2][i]) # env_name
          \/ /\ (host.conda_info[2][i] \o <<"/","b","i","n","/","p","y","t","h","o","n">>) \notin host.conda_info[3]
             /\ (host.conda_info[2][i] \o <<"/","S","c","r","i","p","t","s","/","p","y","t","h","o","n",".","e","x","e">>) \notin host.conda_info[3]

\* the pyenv lookup of the host fails: no process, a timeout, a non-zero exit,
\* or no interpreter file under the prefix
PyenvLookupFails(host) ==
    \/ host.pyenv_prefix[1] # "ok"
    \/ (host.pyenv_prefix[2] \o <<"/","b","i","n","/","p","y","t","h","o","n">>) \notin host.pyenv_prefix[3]

\* C19: get_python_executable raises for no label; it returns the running
\* interpreter's path when the label carries no recognized tag with its
\* argument, and when the label is tagged conda or pyenv and the lookup fails
\* (tool missing, timeout, unparsable output, no matching environment,
\* interpreter file absent).
C19_ExecutableFallback ==
    px_phase = "done" =>
        /\ ~px_result.raised
        /\ (~CondaTagged(px_label) /\ ~PyenvTagged(px_label) /\ ~SystemTagged(px_label))
              => px_result.path = SysExecutable
        /\ (CondaTagged(px_label)
              /\ CondaLookupFails(px_host, SearchAfter(px_label, <<"c","o","n","d","a",":"," ">>)[1]))
              => px_result.path = SysExecutable
        /\ (PyenvTagged(px_label) /\ PyenvLookupFails(px_host))
              => px_result.path = SysExecutable

\* C19 witness: a conda label on a host where conda does not start
C19_Witness ==
    /\ px_phase = "done"
    /\ px_label = <<"3",".","1","1",".","7"," ","(","c","o","n","d","a",":"," ","m","l",")">>
    /\ px_host.conda_info[1] = "nolaunch"
    /\ px_result = Returned(SysExecutable)

\* C24: a label that get_available_versions builds is resolved by the lookup
\* of the source that built it: a system label resolves to exactly the path in
\* it, whatever text the path contains; a conda label to what the conda lookup
\* of its environment gives; a pyenv label to what the pyenv lookup of its
\* version gives; the label of the running interpreter to that interpreter.
C24_ResolutionRoundTrips ==
    px_phase = "done" =>
        \A version \in Versions :
            /\ \A path \in SystemPaths \union {ShimPath} :
                  px_label = SystemLabel(version, path) => px_result = Returned(path)
            /\ \A env_name \in CondaEnvNames :
                  px_label = CondaLabel(version, env_name) =>
                     px_result = get_conda_python_executable(env_name, px_host.conda_info)
            /\ px_label = PyenvLabel(version) =>
                  px_result = get_pyenv_python_executable(version, px_host.pyenv_prefix)
            /\ px_label = CurrentLabel(version) => px_result = Returned(SysExecutable)
-----------------------------------------------------------------------------
(* PackageSearcher (utils/package_search.py) *)

\* the longest list validate_packages is given
MaxValidate == 2

\* the identifiers validate_packages is given
ValidateUniverse == {<<"r","e","a","l","-","p","k","g">>, <<"?","?","i","n","v","a","l","i","d"," ","p","k","g"," ","n","a","m","e","?","?">>, <<"d","j",">","=","4",".","2"," ">>, <<"r","q",">","1">>}

\* what urllib.request.urlopen(url, timeout=5) can do: answer with status 200,
\* answer with another status, raise HTTPError 404, raise URLError (network
\* error), raise a timeout, raise InvalidURL
Lookups == {"status200", "status204", "http404", "urlerror", "timeout", "invalidurl"}

\* line 153: the package name taken from a version specification
PackageNameOf(package) ==
    Strip(SplitHead(SplitHead(SplitHead(SplitHead(SplitHead(package,
        <<"=","=">>), <<">","=">>), <<"<","=">>), <<"~","=">>), <<"!","=">>))

\* a handler that answers False when the lookup raises
validate_single_package_strict(package, lookup) ==
    lookup = "status200"

\* _validate_single_package (lines 149-161): every exception of the lookup is
\* caught and answered True
validate_single_package(package, lookup) ==
    CASE lookup = "status200" -> TRUE
      [] lookup = "status204" -> FALSE
      [] OTHER -> TRUE

\* the indices of a list whose element passes, in order, as a sequence
RECURSIVE SelectFrom(_, _, _)
SelectFrom(flags, want, i) ==
    IF i > Len(flags) THEN <<>>
    ELSE (IF flags[i] = want THEN <<i>> ELSE <<>>) \o SelectFrom(flags, want, i + 1)

\* validate_packages (lines 136-147); lookups[i] is what the lookup made for
\* packages[i] does
validate_packages(packages, lookups) ==
    LET ok == [i \in 1..Len(packages) |-> validate_single_package(packages[i], lookups[i])]
    IN  [valid   |-> [k \in 1..Len(SelectFrom(ok, TRUE, 1)) |->
                         packages[SelectFrom(ok, TRUE, 1)[k]]],
         invalid |-> [k \in 1..Len(SelectFrom(ok, FALSE, 1)) |->
                         packages[SelectFrom(ok, FALSE, 1)[k]]],
         queries |-> [i \in 1..Len(packages) |-> PackageNameOf(packages[i])],
         raised  |-> FALSE]

PSInit ==
    /\ ps_phase = "idle"
    /\ ps_packages = <<>>
    /\ ps_lookups = <<>>
    /\ ps_queries = <<>>
    /\ ps_valid = <<>>
    /\ ps_invalid = <<>>
    /\ ps_raised = FALSE

\* a call of validate_packages
PSValidate ==
    /\ ps_phase = "idle"
    /\ \E packages \in SeqsUpTo(ValidateUniverse, MaxValidate) :
         \E lookups \in [1..Len(packages) -> Lookups] :
         \E r \in {validate_packages(packages, lookups)} :
            /\ ps_phase' = "done"
            /\ ps_packages' = packages
            /\ ps_lookups' = lookups
            /\ ps_queries' = r.queries
            /\ ps_valid' = r.valid
            /\ ps_invalid' = r.invalid
            /\ ps_raised' = r.raised
    /\ UNCHANGED ps_others

\* the call has returned
PSReturn ==
    /\ ps_phase = "done"
    /\ ps_phase' = "idle"
    /\ ps_packages' = <<>>
    /\ ps_lookups' = <<>>
    /\ ps_queries' = <<>>
    /\ ps_valid' = <<>>
    /\ ps_invalid' = <<>>
    /\ ps_raised' = FALSE
    /\ UNCHANGED ps_others

PSNext == PSValidate \/ PSReturn

-----------------------------------------------------------------------------
(* PackageSearcher: properties *)

\* the lookups that fail for a network error or a timeout
UnreachableLookups == {"urlerror", "timeout"}

\* C9: when every registry lookup fails (network error or timeout),
\* validate_packages does not raise and classifies every identifier as valid,
\* leaving the invalid list empty, well-formed name or not.
C9_UnreachableRegistryIsPermissive ==
    (ps_phase = "done"
        /\ \A i \in 1..Len(ps_lookups) : ps_lookups[i] \in UnreachableLookups)
    => /\ ~ps_raised
       /\ ps_valid = ps_packages
       /\ ps_invalid = <<>>

\* C9 witness: the registry is unreachable for a well-formed and a malformed name
C9_Witness ==
    /\ ps_phase = "done"
    /\ ps_packages = <<<<"r","e","a","l","-","p","k","g">>, <<"?","?","i","n","v","a","l","i","d"," ","p","k","g"," ","n","a","m","e","?","?">>>>
    /\ ps_lookups = <<"urlerror", "timeout">>
    /\ ps_valid = ps_packages
    /\ ps_invalid = <<>>


\* the operators of a version qualifier
QualifierOperators == {<<"=","=">>, <<">","=">>, <<"<","=">>, <<"~","=">>, <<"!","=">>, <<">">>, <<"<">>}

\* the identifier has the form name, operator, version
Qualified(package) == \E op \in QualifierOperators : Contains(package, op)

\* the name of a qualified identifier: the text before the first operator
BareName(package) ==
    LET At(i) == \E op \in QualifierOperators : MatchAt(package, op, i)
        first == CHOOSE i \in 1..Len(package) : At(i) /\ \A j \in 1..(i - 1) : ~At(j)
    IN  Strip(SubSeq(package, 1, first - 1))

\* C25: for every identifier of the form name, operator, version, with any of
\* the operators ==, >=, <=, ~=, !=, > and <, validate_packages queries the
\* registry with exactly the bare name.
C25_QualifierStripped ==
    ps_phase = "done" =>
        \A i \in 1..Len(ps_packages) :
            Qualified(ps_packages[i]) => ps_queries[i] = BareName(ps_packages[i])

\* the input positions a result list was taken from: the list is
\* [packages[k] : k in positions], positions increasing
Partitions(packages, valid, invalid) ==
    \E into_valid \in SUBSET (1..Len(packages)) :
        /\ valid = [k \in 1..Len(SelectFrom([i \in 1..Len(packages) |-> i \in into_valid], TRUE, 1)) |-> packages[SelectFrom([i \in 1..Len(packages) |-> i \in into_valid], TRUE, 1)[k]]]
        /\ invalid = [k \in 1..Len(SelectFrom([i \in 1..Len(packages) |-> i \in into_valid], FALSE, 1)) |-> packages[SelectFrom([i \in 1..Len(packages) |-> i \in into_valid], FALSE, 1)[k]]]

\* C26: valid and invalid together hold every input identifier once, each in
\* input order; an identifier whose lookup answers that the package exists
\* (status 200) is in valid, and one whose lookup answers that it does not
\* exist (HTTP 404) is in invalid.
C26_PartitionByPresence ==
    ps_phase = "done" =>
        /\ Partitions(ps_packages, ps_valid, ps_invalid)
        /\ \A i \in 1..Len(ps_packages) :
              /\ ps_lookups[i] = "status200" =>
                    \E k \in 1..Len(ps_valid) : ps_valid[k] = ps_packages[i]
              /\ ps_lookups[i] = "http404" =>
                    \E k \in 1..Len(ps_invalid) : ps_invalid[k] = ps_packages[i]
-----------------------------------------------------------------------------
(* PackageSearcher: search_packages_realtime (utils/package_search.py) *)

\* the largest limit search_packages_realtime is called with
MaxLimit == 3

\* lines 26-62: entries of the curated table, in the order of the source
popular_packages ==
    << [name |-> <<"f","a","s","t","a","p","i">>, version |-> <<"0",".","1","0","4",".","1">>,
        description |-> <<"F","a","s","t","A","P","I"," ","f","r","a","m","e","w","o","r","k",","," ","h","i","g","h"," ","p","e","r","f","o","r","m","a","n","c","e",","," ","e","a","s","y"," ","t","o"," ","l","e","a","r","n">>,
        category |-> <<"w","e","b">>],
       [name |-> <<"f","l","a","s","k">>, version |-> <<"3",".","0",".","0">>,
        description |-> <<"A"," ","s","i","m","p","l","e"," ","f","r","a","m","e","w","o","r","k"," ","f","o","r"," ","b","u","i","l","d","i","n","g"," ","c","o","m","p","l","e","x"," ","w","e","b"," ","a","p","p","l","i","c","a","t","i","o","n","s">>,
        category |-> <<"w","e","b">>],
       [name |-> <<"r","e","q","u","e","s","t","s">>, version |-> <<"2",".","3","1",".","0">>,
        description |-> <<"P","y","t","h","o","n"," ","H","T","T","P"," ","f","o","r"," ","H","u","m","a","n","s">>, category |-> <<"h","t","t","p">>],
       [name |-> <<"h","t","t","p","x">>, version |-> <<"0",".","2","5",".","2">>,
        description |-> <<"N","e","x","t"," ","g","e","n","e","r","a","t","i","o","n"," ","H","T","T","P"," ","c","l","i","e","n","t">>, category |-> <<"h","t","t","p">>],
       [name |-> <<"p","y","t","e","s","t">>, version |-> <<"7",".","4",".","3">>,
        description |-> <<"T","e","s","t","i","n","g"," ","f","r","a","m","e","w","o","r","k">>, category |-> <<"t","e","s","t","i","n","g">>] >>

\* the queries of the model
SearchQueries ==
    {<<>>, <<"x"," ">>, <<"f","l","a","s","k">>, <<" ","R","e","q","u","e","s","t","s"," ">>, <<"h","t","t","p">>, <<"w","e","b">>, <<"t","e","s","t","i","n","g"," ","f","r","a","m","e","w","o","r","k">>,
     <<"f","a","s","t">>, <<"z","o","p","e">>}

\* what the registry answers for /<name>/json: no document (an HTTP error, no
\* network, a body that is not JSON), or a document whose info.name is the
\* name asked for or the project's display name
Responses == {"error", "name_as_asked", "display_name"}

\* _get_real_package_info (lines 95-111): <<>> stands for None
get_real_package_info(package_name, response) ==
    IF response = "error" THEN <<>>
    ELSE << [name |-> IF response = "display_name" THEN Title(package_name)
                      ELSE package_name,
             version |-> <<"1",".","0",".","0">>,
             description |-> <<"s","u","m","m","a","r","y">>,
             author |-> <<"U","n","k","n","o","w","n">>,
             download_count |-> 0] >>

\* x in list
In(x, list) == \E i \in 1..Len(list) : list[i] = x

\* str.split(): the maximal runs of characters that are not spaces, from i on
RECURSIVE WordsFrom(_, _)
WordsFrom(s, i) ==
    IF i > Len(s) THEN <<>>
    ELSE IF s[i] = " " THEN WordsFrom(s, i + 1)
    ELSE LET e == IF \E k \in i..Len(s) : s[k] = " "
                  THEN (CHOOSE k \in i..Len(s) :
                           s[k] = " " /\ \A j \in i..(k - 1) : s[j] # " ") - 1
                  ELSE Len(s)
         IN  <<SubSeq(s, i, e)>> \o WordsFrom(s, e + 1)

\* the whole list instead of results[:limit]
SliceWhole(list, limit) == list

\* list[:limit]
Slice(list, limit) ==
    IF limit >= 0
    THEN SubSeq(list, 1, IF limit < Len(list) THEN limit ELSE Len(list))
    ELSE SubSeq(list, 1, IF Len(list) + limit > 0 THEN Len(list) + limit ELSE 0)

\* lines 66-68: the exact name match
ExactMatches(query) ==
    SelectSeq(popular_packages, LAMBDA pkg_info : pkg_info.name = query)

\* lines 70-73: the partial name matches not yet in results, appended
RECURSIVE PartialMatches(_, _, _)
PartialMatches(query, results, i) ==
    IF i > Len(popular_packages) THEN results
    ELSE PartialMatches(query,
             IF Contains(Lower(popular_packages[i].name), query)
                /\ ~In(popular_packages[i], results)
             THEN Append(results, popular_packages[i]) ELSE results,
             i + 1)

\* lines 82-84: the test on the description and the category
DescriptionMatches(pkg_info, query, query_words) ==
    \/ \E w \in 1..Len(query_words) : Contains(Lower(pkg_info.description), query_words[w])
    \/ \E w \in 1..Len(query_words) : Contains(Lower(pkg_info.category), query_words[w])
    \/ Contains(Lower(pkg_info.description), query)
    \/ Contains(Lower(pkg_info.category), query)

\* lines 75-85: the description and category matches not yet in results, appended
RECURSIVE DescriptionStage(_, _, _)
DescriptionStage(query, results, i) ==
    IF i > Len(popular_packages) THEN results
    ELSE DescriptionStage(query,
             IF ~In(popular_packages[i], results)
                /\ DescriptionMatches(popular_packages[i], query, WordsFrom(query, 1))
             THEN Append(results, popular_packages[i]) ELSE results,
             i + 1)

\* lines 87-91: the live lookup, made when there is room, and its result put first
WithRealPackage(query, results, limit, response) ==
    IF Len(results) < limit
    THEN LET real_package == get_real_package_info(query, response)
         IN  IF Len(real_package) > 0 /\ ~In(real_package[1], results)
             THEN real_package \o results ELSE results
    ELSE results

\* search_packages_realtime (lines 18-93)
search_packages_realtime(query, limit, response) ==
    IF Len(query) = 0 \/ Len(Strip(query)) < 2 THEN <<>>
    ELSE LET q == Lower(Strip(query))
             matched == DescriptionStage(q, PartialMatches(q, ExactMatches(q), 1), 1)
         IN  Slice(WithRealPackage(q, matched, limit, response), limit)

SRInit ==
    /\ sr_phase = "idle"
    /\ sr_query = <<>>
    /\ sr_limit = 0
    /\ sr_response = "error"
    /\ sr_results = <<>>

\* search_packages_realtime is called and returns
SRSearch ==
    /\ sr_phase = "idle"
    /\ \E query \in SearchQueries, limit \in 0..MaxLimit, response \in Responses :
         /\ sr_phase' = "done"
         /\ sr_query' = query
         /\ sr_limit' = limit
         /\ sr_response' = response
         /\ sr_results' = search_packages_realtime(query, limit, response)
    /\ UNCHANGED sr_others

\* the caller is done with the results
SRReturn ==
    /\ sr_phase = "done"
    /\ sr_phase' = "idle"
    /\ sr_query' = <<>>
    /\ sr_limit' = 0
    /\ sr_response' = "error"
    /\ sr_results' = <<>>
    /\ UNCHANGED sr_others

SRNext == SRSearch \/ SRReturn

-----------------------------------------------------------------------------
(* PackageSearcher: properties of the search *)

\* C17: for every query, every limit from 0 up and every answer of the
\* registry, search_packages_realtime returns at most limit results.
C17_AtMostLimit ==
    sr_phase = "done" => Len(sr_results) <= sr_limit

\* C17 witness: a query matched by name and by description, cut to one result
C17_Witness ==
    /\ sr_phase = "done"
    /\ sr_query = <<"h","t","t","p">>
    /\ sr_limit = 1
    /\ Len(sr_results) = 1
    /\ sr_results[1].name = <<"h","t","t","p","x">>

\* C18: no two candidates returned by search_packages_realtime have the same
\* package name, whatever the registry answered.
C18_NoDuplicateNames ==
    sr_phase = "done" =>
        \A i, j \in 1..Len(sr_results) :
            i # j => sr_results[i].name # sr_results[j].name
-----------------------------------------------------------------------------
(* Templates (templates/registry.py) *)

\* _basic_template (lines 25-59). README.md is given up to its first heading:
\* the rest of the file is fixed text without replacement fields
basic_template ==
    [name         |-> <<"b","a","s","i","c">>,
     dependencies |-> <<>>,
     files        |-> <<
        <<"main.py", <<"\"","\"","\"","M","a","i","n"," ","a","p","p","l","i","c","a","t","i","o","n"," ","e","n","t","r","y"," ","p","o","i","n","t",".","\"","\"","\"","\n","\n","d","e","f"," ","m","a","i","n","(",")",":","\n"," "," "," "," ","\"","\"","\"","M","a","i","n"," ","f","u","n","c","t","i","o","n",".","\"","\"","\"","\n"," "," "," "," ","p","r","i","n","t","(","\"","H","e","l","l","o",","," ","{","p","r","o","j","e","c","t","_","n","a","m","e","}","!","\"",")","\n","\n","i","f"," ","_","_","n","a","m","e","_","_"," ","=","="," ","\"","_","_","m","a","i","n","_","_","\"",":","\n"," "," "," "," ","m","a","i","n","(",")","\n">>>>,
        <<"README.md", <<"#"," ","{","p","r","o","j","e","c","t","_","n","a","m","e","_","t","i","t","l","e","}","\n","\n","{","d","e","s","c","r","i","p","t","i","o","n","}","\n","\n","#","#"," ","S","e","t","u","p","\n">>>> >>,
     env_vars     |-> << <<<<"P","Y","T","H","O","N","P","A","T","H">>, <<".">>>>, <<<<"E","N","V","I","R","O","N","M","E","N","T">>, <<"d","e","v","e","l","o","p","m","e","n","t">>>> >>]

\* _fastapi_template (lines 61-113). Of main.py the lines with braces are
\* given (lines 70-72 and 79), README.md is given up to its first heading
fastapi_template ==
    [name         |-> <<"f","a","s","t","a","p","i">>,
     dependencies |-> <<<<"f","a","s","t","a","p","i">>, <<"u","v","i","c","o","r","n","[","s","t","a","n","d","a","r","d","]">>>>,
     files        |-> <<
        <<"main.py", <<"a","p","p"," ","="," ","F","a","s","t","A","P","I","(","\n"," "," "," "," ","t","i","t","l","e","=","\"","{","p","r","o","j","e","c","t","_","n","a","m","e","_","t","i","t","l","e","}","\"",",","\n"," "," "," "," ","d","e","s","c","r","i","p","t","i","o","n","=","\"","{","d","e","s","c","r","i","p","t","i","o","n","}","\"",",","\n"," "," "," "," ","r","e","t","u","r","n"," ","{","{","\"","m","e","s","s","a","g","e","\"",":"," ","\"","H","e","l","l","o"," ","f","r","o","m"," ","{","p","r","o","j","e","c","t","_","n","a","m","e","_","t","i","t","l","e","}","!","\"","}","}","\n">>>>,
        <<"README.md", <<"#"," ","{","p","r","o","j","e","c","t","_","n","a","m","e","_","t","i","t","l","e","}","\n","\n","{","d","e","s","c","r","i","p","t","i","o","n","}","\n","\n","#","#"," ","S","e","t","u","p","\n">>>> >>,
     env_vars     |-> << <<<<"E","N","V","I","R","O","N","M","E","N","T">>, <<"d","e","v","e","l","o","p","m","e","n","t">>>>, <<<<"H","O","S","T">>, <<"1","2","7",".","0",".","0",".","1">>>>,
                         <<<<"P","O","R","T">>, <<"8","0","0","0">>>> >>]

\* _load_builtin_templates (lines 18-23): a dict name -> template
load_builtin_templates ==
    << <<<<"b","a","s","i","c">>, basic_template>>, <<<<"f","a","s","t","a","p","i">>, fastapi_template>> >>

\* get_template (lines 10-12): <<>> stands for None, <<t>> for the template t
get_template(name) ==
    IF name \in DictKeys(load_builtin_templates)
    THEN <<DictGet(load_builtin_templates, name)>>
    ELSE <<>>

-----------------------------------------------------------------------------
(* str.format as _generate_files uses it (core/project_creator.py line 240) *)

Braces == {"{", "}"}

\* the position of the first brace of s[i:], Len(s) + 1 when it has none
NextBrace(s, i) ==
    IF \E k \in i..Len(s) : s[k] \in Braces
    THEN CHOOSE k \in i..Len(s) :
            s[k] \in Braces /\ \A j \in i..(k - 1) : s[j] \notin Braces
    ELSE Len(s) + 1

\* the position of the "}" that closes the field opened at position i, 0 when
\* the field is not closed
FieldEnd(s, i) ==
    IF \E k \in (i + 1)..Len(s) : s[k] = "}"
    THEN CHOOSE k \in (i + 1)..Len(s) :
            s[k] = "}" /\ \A j \in (i + 1)..(k - 1) : s[j] # "}"
    ELSE 0

\* whether s[i:].format(**context) raises: a field that is not closed or a
\* single "}" (ValueError), a field that names no key of the context (KeyError)
RECURSIVE FormatRaises(_, _, _)
FormatRaises(s, context, i) ==
    IF NextBrace(s, i) > Len(s) THEN FALSE
    ELSE LET b == NextBrace(s, i)
         IN  IF b < Len(s) /\ s[b + 1] = s[b] THEN FormatRaises(s, context, b + 2)
             ELSE IF s[b] = "}" THEN TRUE
             ELSE IF FieldEnd(s, b) = 0 THEN TRUE
             ELSE IF SubSeq(s, b + 1, FieldEnd(s, b) - 1) \notin DictKeys(context) THEN TRUE
             ELSE FormatRaises(s, context, FieldEnd(s, b) + 1)

\* s[i:].format(**context) when it does not raise: "{{" and "}}" give one
\* brace, {name} gives context[name], other text is copied
RECURSIVE FormatFrom(_, _, _)
FormatFrom(s, context, i) ==
    IF NextBrace(s, i) > Len(s) THEN SubSeq(s, i, Len(s))
    ELSE LET b == NextBrace(s, i)
         IN  SubSeq(s, i, b - 1) \o
             (IF b < Len(s) /\ s[b + 1] = s[b]
              THEN <<s[b]>> \o FormatFrom(s, context, b + 2)
              ELSE DictGet(context, SubSeq(s, b + 1, FieldEnd(s, b) - 1))
                   \o FormatFrom(s, context, FieldEnd(s, b) + 1))

Format(s, context) == FormatFrom(s, context, 1)

-----------------------------------------------------------------------------
(* ProjectCreator (core/project_creator.py) *)

\* the longest additional_packages list
MaxExtra == 1

\* the most installer invocations of one batch that fail
MaxFailures == 1

\* the constructor arguments; <<project_name, template_name>>
Projects ==
    {<<<<"M","y"," ","P","r","o","j","e","c","t">>, <<"b","a","s","i","c">>>>, <<<<"m","y","-","a","p","p">>, <<"f","a","s","t","a","p","i">>>>, <<<<"m","y","-","a","p","p">>, <<"f","l","a","s","k">>>>}
ExtraUniverse == {<<"F","l","a","s","k">>, <<"f","a","s","t","a","p","i">>}
DevLists == {<<>>, <<<<"p","y","t","e","s","t">>, <<"b","l","a","c","k">>>>, <<<<"b","l","a","c","k">>, <<"b","l","a","c","k">>>>}

\* <<create_venv, use_conda, conda_env_name>>; <<>> stands for None
EnvRequests ==
    {<<FALSE, FALSE, <<>>>>, <<TRUE, FALSE, <<>>>>, <<FALSE, TRUE, <<>>>>,
     <<TRUE, TRUE, <<"m","l">>>>}

\* __init__ (lines 15-48); python_version and description are left at None
ProjectCreator(project_name, template_name, additional_packages, dev_dependencies, env_request, init_git, existing_dir) ==
    [project_name        |-> project_name,
     template_name       |-> template_name,
     python_version      |-> <<>>,
     description         |-> <<"A"," ","P","y","t","h","o","n"," ","p","r","o","j","e","c","t"," ","c","r","e","a","t","e","d"," ","w","i","t","h"," ","I","n","i","t","y">>,
     additional_packages |-> additional_packages,
     dev_dependencies    |-> dev_dependencies,
     create_venv         |-> env_request[1],
     use_conda           |-> env_request[2],
     conda_env_name      |-> env_request[3],
     init_git            |-> init_git,
     existing_dir        |-> existing_dir]

\* the paths under the project path that the code tests or runs
ProjectDir == "project"
VenvDir == ".venv"
GitDir == ".git"
VenvPip == ".venv/bin/pip"
VenvPip3 == ".venv/bin/pip3"
VenvPip3Exe == ".venv/Scripts/pip3.exe"

\* what a venv can hold after its creation
PipLayouts == {{VenvPip, VenvPip3}, {VenvPip3}, {}}

\* <<existing_dir, the disk before create()>>: a new project where nothing or
\* the directory exists, an existing one where nothing exists or the directory
\* with a virtual environment in it
Sites ==
    {<<FALSE, {}>>, <<FALSE, {ProjectDir}>>, <<TRUE, {}>>,
     <<TRUE, {ProjectDir, VenvDir, VenvPip, VenvPip3}>>}

\* line 105: the name of the conda environment
CondaEnvName(cfg) ==
    IF cfg.conda_env_name = <<>>
    THEN Replace(cfg.project_name, <<"-">>, <<"_">>) \o <<"_","e","n","v">>
    ELSE cfg.conda_env_name

\* what conda reports on the host, as <<conda_available, conda_list_ok,
\* conda_listing>>: no conda; no environment; the named environment, with an
\* interpreter that answers or without an interpreter
CondaHosts(name) ==
    {<<FALSE, TRUE, <<>>>>, <<TRUE, TRUE, <<>>>>,
     <<TRUE, TRUE, << <<name, <<"3",".","1","1",".","7">>>> >>>>,
     <<TRUE, TRUE, << <<name, ProbeMissing>> >>>>}

\* the outcomes of a process started with check=True: exit status 0, a non-zero
\* exit status (CalledProcessError), or no process at all (OSError)
RunOutcomes == {"ok", "nonzero", "nolaunch"}

\* the environment create() was asked for exists
EnvExists(cfg, fs, envs) ==
    IF cfg.use_conda THEN CondaEnvName(cfg) \in envs ELSE VenvDir \in fs

\* one call of subprocess.run: the stage of create() that made it, what was
\* run, and whether the project directory and the requested environment
\* existed when it was made
Run(stage, kind, exe, arg, out, cfg, fs, envs) ==
    [stage |-> stage, kind |-> kind, exe |-> exe, arg |-> arg, out |-> out,
     dir |-> ProjectDir \in fs, env |-> EnvExists(cfg, fs, envs)]

\* the stages of create() (lines 50-100), in the order of its statements
StageAfterGitFirst(stage) ==
    CASE stage = "directory"    -> "template"
      [] stage = "template"     -> "provision"
      [] stage = "provision"    -> "files"
      [] stage = "files"        -> "requirements"
      [] stage = "requirements" -> "git"
      [] stage = "git"          -> "install"
      [] stage = "install"      -> "return"

StageAfter(stage) ==
    CASE stage = "directory"    -> "template"
      [] stage = "template"     -> "provision"
      [] stage = "provision"    -> "files"
      [] stage = "files"        -> "requirements"
      [] stage = "requirements" -> "install"
      [] stage = "install"      -> "git"
      [] stage = "git"          -> "return"

-----------------------------------------------------------------------------
(* ProjectCreator: the stages of create() *)

\* what a stage hands back when it does nothing
NoEffect(fs, envs, files) ==
    [raised |-> FALSE, fs |-> fs, envs |-> envs, files |-> files,
     procs |-> <<>>, batches |-> <<>>]

\* lines 54-61 without the existence test of lines 60-61
create_directory_unchecked(cfg, fs, mkdir_ok) ==
    IF ~cfg.existing_dir /\ ProjectDir \notin fs /\ ~mkdir_ok
    THEN [raised |-> TRUE, fs |-> fs]
    ELSE IF ~cfg.existing_dir
    THEN [raised |-> FALSE, fs |-> fs \union {ProjectDir}]
    ELSE [raised |-> FALSE, fs |-> fs]

\* lines 54-61: mkdir unless existing_dir, then the existence test
create_directory(cfg, fs, mkdir_ok) ==
    IF ~cfg.existing_dir /\ ProjectDir \notin fs /\ ~mkdir_ok
    THEN [raised |-> TRUE, fs |-> fs]
    ELSE IF ~cfg.existing_dir
    THEN [raised |-> FALSE, fs |-> fs \union {ProjectDir}]
    ELSE [raised |-> ProjectDir \notin fs, fs |-> fs]

\* _create_conda_activation_script (lines 125-144), on a POSIX host
create_conda_activation_script(cfg, files) ==
    DictSet(files, "activate.sh",
            <<"#","!","/","b","i","n","/","b","a","s","h","\n","c","o","n","d","a"," ","a","c","t","i","v","a","t","e"," ">> \o CondaEnvName(cfg) \o <<"\n">>)

\* _setup_conda_environment (lines 102-123) with create_conda_environment
\* (utils/python_version.py lines 103-122): the variant that goes on when the
\* creation fails
setup_conda_environment_no_raise(cfg, host, fs, envs, files, create_out) ==
    LET name == CondaEnvName(cfg)
        listed == name \in DictKeys(get_conda_environments(host))
        list_run == IF host.conda_available
                    THEN <<Run("provision", "conda_list", "conda", <<>>,
                               IF host.conda_list_ok THEN "ok" ELSE "nonzero",
                               cfg, fs, envs)>>
                    ELSE <<>>
        create_run == IF ~listed /\ host.conda_available
                      THEN <<Run("provision", "conda_create", "conda", name,
                                 create_out, cfg, fs, envs)>>
                      ELSE <<>>
        success == listed \/ (host.conda_available /\ create_out = "ok")
    IN  [raised  |-> FALSE,
         fs      |-> fs,
         envs    |-> IF ~listed /\ success THEN envs \union {name} ELSE envs,
         files   |-> create_conda_activation_script(cfg, files),
         procs   |-> list_run \o create_run,
         batches |-> <<>>]

\* _setup_conda_environment (lines 102-123) with create_conda_environment
\* (utils/python_version.py lines 103-122)
setup_conda_environment(cfg, host, fs, envs, files, create_out) ==
    LET name == CondaEnvName(cfg)
        listed == name \in DictKeys(get_conda_environments(host))
        list_run == IF host.conda_available
                    THEN <<Run("provision", "conda_list", "conda", <<>>,
                               IF host.conda_list_ok THEN "ok" ELSE "nonzero",
                               cfg, fs, envs)>>
                    ELSE <<>>
        create_run == IF ~listed /\ host.conda_available
                      THEN <<Run("provision", "conda_create", "conda", name,
                                 create_out, cfg, fs, envs)>>
                      ELSE <<>>
        success == listed \/ (host.conda_available /\ create_out = "ok")
    IN  [raised  |-> ~success,
         fs      |-> fs,
         envs    |-> IF ~listed /\ success THEN envs \union {name} ELSE envs,
         files   |-> IF success THEN create_conda_activation_script(cfg, files) ELSE files,
         procs   |-> list_run \o create_run,
         batches |-> <<>>]

\* what the two venv creation commands can do, as <<first, second, layout>>:
\* each exits 0 and leaves the directory ("ok"), exits non-zero ("nonzero"), or
\* exits 0 without leaving the directory ("absent"); "-" for a command not run
VenvOutcomes ==
    {<<"ok", "-", layout>> : layout \in PipLayouts}
    \union {<<"nonzero", "-", {}>>, <<"absent", "ok", {VenvPip, VenvPip3}>>,
            <<"absent", "nonzero", {}>>, <<"absent", "absent", {}>>}

\* _create_virtual_environment (lines 146-221) without the test of lines 190-191
create_virtual_environment_no_verify(cfg, fs, envs, files, out) ==
    IF VenvDir \in fs THEN NoEffect(fs, envs, files)
    ELSE LET first == Run("provision", "venv", SysExecutable, <<".","v","e","n","v">>,
                          IF out[1] = "absent" THEN "ok" ELSE out[1], cfg, fs, envs)
             second == Run("provision", "venv", SysExecutable, <<".","v","e","n","v">>,
                           IF out[2] = "absent" THEN "ok" ELSE out[2], cfg, fs, envs)
             created == out[1] = "ok" \/ (out[1] = "absent" /\ out[2] = "ok")
         IN  [raised  |-> ~created /\ out[2] # "absent",
              fs      |-> IF created THEN fs \union {VenvDir} \union out[3] ELSE fs,
              envs    |-> envs,
              files   |-> files,
              procs   |-> IF out[1] = "absent" THEN <<first, second>> ELSE <<first>>,
              batches |-> <<>>]

\* _create_virtual_environment (lines 146-221) without the test of lines 152-154
create_virtual_environment_always(cfg, fs, envs, files, out) ==
    LET first == Run("provision", "venv", SysExecutable, <<".","v","e","n","v">>,
                     IF out[1] = "absent" THEN "ok" ELSE out[1], cfg, fs, envs)
        second == Run("provision", "venv", SysExecutable, <<".","v","e","n","v">>,
                      IF out[2] = "absent" THEN "ok" ELSE out[2], cfg, fs, envs)
        created == out[1] = "ok" \/ (out[1] = "absent" /\ out[2] = "ok")
    IN  [raised  |-> ~created,
         fs      |-> IF created THEN fs \union {VenvDir} \union out[3] ELSE fs,
         envs    |-> envs,
         files   |-> files,
         procs   |-> IF out[1] = "absent" THEN <<first, second>> ELSE <<first>>,
         batches |-> <<>>]

\* _create_virtual_environment (lines 146-221)
create_virtual_environment(cfg, fs, envs, files, out) ==
    IF VenvDir \in fs THEN NoEffect(fs, envs, files)
    ELSE LET first == Run("provision", "venv", SysExecutable, <<".","v","e","n","v">>,
                          IF out[1] = "absent" THEN "ok" ELSE out[1], cfg, fs, envs)
             second == Run("provision", "venv", SysExecutable, <<".","v","e","n","v">>,
                           IF out[2] = "absent" THEN "ok" ELSE out[2], cfg, fs, envs)
             created == out[1] = "ok" \/ (out[1] = "absent" /\ out[2] = "ok")
         IN  [raised  |-> ~created,
              fs      |-> IF created THEN fs \union {VenvDir} \union out[3] ELSE fs,
              envs    |-> envs,
              files   |-> files,
              procs   |-> IF out[1] = "absent" THEN <<first, second>> ELSE <<first>>,
              batches |-> <<>>]

\* lines 68-74
provision(cfg, host, fs, envs, files, create_out, venv_out) ==
    IF cfg.use_conda THEN setup_conda_environment(cfg, host, fs, envs, files, create_out)
    ELSE IF cfg.create_venv THEN create_virtual_environment(cfg, fs, envs, files, venv_out)
    ELSE NoEffect(fs, envs, files)

\* lines 225-231 with project_name_snake for project_name
RenderContextSnake(cfg) ==
    << <<<<"p","r","o","j","e","c","t","_","n","a","m","e">>,
         Replace(Replace(Lower(cfg.project_name), <<"-">>, <<"_">>), <<" ">>, <<"_">>)>>,
       <<<<"p","r","o","j","e","c","t","_","n","a","m","e","_","s","n","a","k","e">>,
         Replace(Replace(Lower(cfg.project_name), <<"-">>, <<"_">>), <<" ">>, <<"_">>)>>,
       <<<<"p","r","o","j","e","c","t","_","n","a","m","e","_","t","i","t","l","e">>,
         Title(Replace(Replace(cfg.project_name, <<"-">>, <<" ">>), <<"_">>, <<" ">>))>>,
       <<<<"d","e","s","c","r","i","p","t","i","o","n">>, cfg.description>>,
       <<<<"p","y","t","h","o","n","_","v","e","r","s","i","o","n">>, <<"3",".","1","1",".","7">>>> >>

\* lines 225-231: the context of the rendering; python_version is the running
\* interpreter's version
RenderContext(cfg) ==
    << <<<<"p","r","o","j","e","c","t","_","n","a","m","e">>, cfg.project_name>>,
       <<<<"p","r","o","j","e","c","t","_","n","a","m","e","_","s","n","a","k","e">>,
         Replace(Replace(Lower(cfg.project_name), <<"-">>, <<"_">>), <<" ">>, <<"_">>)>>,
       <<<<"p","r","o","j","e","c","t","_","n","a","m","e","_","t","i","t","l","e">>,
         Title(Replace(Replace(cfg.project_name, <<"-">>, <<" ">>), <<"_">>, <<" ">>))>>,
       <<<<"d","e","s","c","r","i","p","t","i","o","n">>, cfg.description>>,
       <<<<"p","y","t","h","o","n","_","v","e","r","s","i","o","n">>, <<"3",".","1","1",".","7">>>> >>

\* lines 253-281, the first entries
GitignoreContent == <<"#"," ","B","y","t","e","-","c","o","m","p","i","l","e","d"," ","/"," ","o","p","t","i","m","i","z","e","d"," ","/"," ","D","L","L"," ","f","i","l","e","s","\n","_","_","p","y","c","a","c","h","e","_","_","/","\n","*",".","p","y","[","c","o","d","]","\n","*","$","p","y",".","c","l","a","s","s","\n">>

\* lines 234-244: whether the file of the template is rendered and written;
\* blocked holds the names whose write_text raises
FileWritten(file, context, blocked) ==
    ~FormatRaises(file[2], context, 1) /\ file[1] \notin blocked

\* _generate_files (lines 223-284) without the handler of lines 243-244: the
\* first file that does not render or cannot be written ends the call
generate_files_no_catch(cfg, template, files, blocked, rnds) ==
    LET context == RenderContext(cfg)
        Fails(i) == ~FileWritten(template.files[i], context, blocked)
        n == Len(template.files)
        stop == IF \E i \in 1..n : Fails(i)
                THEN CHOOSE i \in 1..n : Fails(i) /\ \A k \in 1..(i - 1) : ~Fails(k)
                ELSE n + 1
        rendered == [i \in 1..(stop - 1) |->
                        <<template.files[i][1], Format(template.files[i][2], context)>>]
        with_files == DictSetAll(files, rendered, 1)
        with_env == IF Len(template.env_vars) > 0
                    THEN DictSet(with_files, ".env",
                                 generate_env_file(template.env_vars, rnds))
                    ELSE with_files
    IN  IF stop <= n THEN [raised |-> TRUE, files |-> with_files]
        ELSE [raised |-> FALSE, files |-> DictSet(with_env, ".gitignore", GitignoreContent)]

\* _generate_files (lines 223-284): whether it raises, and the files on disk
\* afterwards; rnds is what _generate_secret_key returns for each variable of
\* .env if it is called. The writes of .env (utils/env_generator.py line 26)
\* and of .gitignore (line 283) have no handler.
generate_files_steps(cfg, template, files, blocked, rnds) ==
    LET context == RenderContext(cfg)
        rendered == [i \in 1..Len(template.files) |->
                        IF FileWritten(template.files[i], context, blocked)
                        THEN <<template.files[i][1], Format(template.files[i][2], context)>>
                        ELSE <<>>]
        Written(pair) == pair # <<>>
        with_files == DictSetAll(files, SelectSeq(rendered, Written), 1)
        env_raises == Len(template.env_vars) > 0 /\ ".env" \in blocked
        with_env == IF Len(template.env_vars) > 0
                    THEN DictSet(with_files, ".env",
                                 generate_env_file(template.env_vars, rnds))
                    ELSE with_files
    IN  IF env_raises THEN [raised |-> TRUE, files |-> with_files]
        ELSE IF ".gitignore" \in blocked THEN [raised |-> TRUE, files |-> with_env]
        ELSE [raised |-> FALSE, files |-> DictSet(with_env, ".gitignore", GitignoreContent)]

\* _generate_files (lines 223-284): the files on disk afterwards
generate_files(cfg, template, files, blocked, rnds) ==
    generate_files_steps(cfg, template, files, blocked, rnds).files

\* sorted(S) for a set of strings
RECURSIVE Sorted(_)
Sorted(S) ==
    IF S = {} THEN <<>>
    ELSE LET least == CHOOSE x \in S : \A y \in S \ {x} : StrLess(x, y)
         IN  <<least>> \o Sorted(S \ {least})

\* the list as it is, without sorted(set(...))
RequirementsLinesAsGiven(deps) == deps

\* lines 292 and 299: sorted(set(deps))
RequirementsLines(deps) == Sorted({deps[i] : i \in 1..Len(deps)})

\* _create_requirements_files (lines 286-301): the files on disk afterwards
create_requirements_files(cfg, template, files) ==
    LET all_deps == template.dependencies \o cfg.additional_packages
        with_main == IF Len(all_deps) > 0
                     THEN DictSet(files, "requirements.txt",
                                  Join(RequirementsLines(all_deps), <<"\n">>) \o <<"\n">>)
                     ELSE files
    IN  IF Len(cfg.dev_dependencies) > 0
        THEN DictSet(with_main, "requirements-dev.txt",
                     Join(RequirementsLines(cfg.dev_dependencies), <<"\n">>) \o <<"\n">>)
        ELSE with_main

-----------------------------------------------------------------------------
(* ProjectCreator: dependency installation and repository initialization *)

\* the outcomes of the invocations of a batch of n packages whose installer
\* starts: each exits 0 or non-zero
BatchOutcomes(n) ==
    {outs \in [1..n -> {"ok", "nonzero"}] :
        Cardinality({i \in 1..n : outs[i] # "ok"}) <= MaxFailures}

AllOk(n) == [i \in 1..n |-> "ok"]

\* the position of the first invocation that starts no process, Len(outs) + 1
\* when every invocation starts one
FirstNoLaunch(outs) ==
    IF \E i \in 1..Len(outs) : outs[i] = "nolaunch"
    THEN CHOOSE i \in 1..Len(outs) :
            outs[i] = "nolaunch" /\ \A j \in 1..(i - 1) : outs[j] # "nolaunch"
    ELSE Len(outs) + 1

\* the per-package loops (lines 411-423, 456-467, 512-523): the invocations
\* made, one per package until one starts no process and the loop is left
LoopRuns(kind, exe, deps, outs, cfg, fs, envs) ==
    [i \in 1..(IF FirstNoLaunch(outs) <= Len(deps) THEN FirstNoLaunch(outs) ELSE Len(deps)) |->
        Run("install", kind, exe, deps[i], outs[i], cfg, fs, envs)]

\* the packages appended to successful_installs (out = "ok") or to
\* failed_installs (out = "nonzero") before the loop ends or is left
RECURSIVE Appended(_, _, _, _)
Appended(deps, outs, out, i) ==
    IF i > Len(deps) \/ outs[i] = "nolaunch" THEN <<>>
    ELSE (IF outs[i] = out THEN <<deps[i]>> ELSE <<>>) \o Appended(deps, outs, out, i + 1)

\* a batch when its handler ends: "completed" when the loop ran to its end,
\* "abandoned" when an exception ended the handler before, "skipped" when the
\* handler found no installer
Batch(kind, input, successful, failed, status) ==
    [kind |-> kind, input |-> input, successful |-> successful, failed |-> failed,
     status |-> status]

\* how _get_pip_executable (lines 478-501) ends for a conda project: with the
\* pip next to the environment's interpreter, with the path `which pip` prints
\* in the environment, or with the default venv path
PipResolutions == {"conda_pip", "which_pip", "venv_pip"}

\* _get_pip_executable (lines 478-501), on a POSIX host
get_pip_executable(cfg, resolution) ==
    IF cfg.use_conda /\ resolution = "conda_pip" THEN "conda/bin/pip"
    ELSE IF cfg.use_conda /\ resolution = "which_pip" THEN "which/pip"
    ELSE VenvPip

\* the processes _get_pip_executable starts
get_pip_executable_runs(cfg, resolution, fs, envs) ==
    IF ~cfg.use_conda THEN <<>>
    ELSE <<Run("install", "conda_info", "conda", <<>>, "ok", cfg, fs, envs)>>
         \o (IF resolution = "conda_pip" THEN <<>>
             ELSE <<Run("install", "conda_which", "conda", CondaEnvName(cfg),
                        IF resolution = "which_pip" THEN "ok" ELSE "nonzero",
                        cfg, fs, envs)>>)

\* _install_with_conda_run (lines 503-532)
install_with_conda_run(cfg, fs, envs, files, dependencies, outs) ==
    [raised  |-> FALSE, fs |-> fs, envs |-> envs, files |-> files,
     procs   |-> LoopRuns("conda_run_install", "conda", dependencies, outs, cfg, fs, envs),
     batches |-> <<Batch("conda", dependencies,
                         Appended(dependencies, outs, "ok", 1),
                         Appended(dependencies, outs, "nonzero", 1),
                         IF FirstNoLaunch(outs) <= Len(dependencies)
                         THEN "abandoned" ELSE "completed")>>]

\* lines 369-382 without the existence tests: the first candidate
WorkingPipUntested(cfg, fs) == get_pip_executable(cfg, "venv_pip")

\* lines 372-382: the first candidate that exists, "" when none does
WorkingPip(cfg, fs) ==
    IF get_pip_executable(cfg, "venv_pip") \in fs THEN get_pip_executable(cfg, "venv_pip")
    ELSE IF VenvPip3 \in fs THEN VenvPip3
    ELSE IF VenvPip3Exe \in fs THEN VenvPip3Exe
    ELSE ""

\* _auto_install_dependencies (lines 361-441)
auto_install_dependencies(cfg, fs, envs, files, dependencies, upgrade, outs) ==
    IF Len(dependencies) = 0 THEN NoEffect(fs, envs, files)
    ELSE IF cfg.use_conda
    THEN install_with_conda_run(cfg, fs, envs, files, dependencies, outs)
    ELSE IF WorkingPip(cfg, fs) = ""
    THEN [raised |-> FALSE, fs |-> fs, envs |-> envs, files |-> files, procs |-> <<>>,
          batches |-> <<Batch("pip", dependencies, <<>>, <<>>, "skipped")>>]
    ELSE LET pip == WorkingPip(cfg, fs)
             upgrade_run == Run("install", "pip_upgrade", pip, <<"p","i","p">>, upgrade,
                                cfg, fs, envs)
         IN  IF upgrade # "ok"
             THEN [raised |-> upgrade = "nolaunch",
                   fs |-> fs, envs |-> envs, files |-> files,
                   procs |-> <<upgrade_run>>,
                   batches |-> <<Batch("pip", dependencies, <<>>, <<>>, "abandoned")>>]
             ELSE [raised |-> FirstNoLaunch(outs) <= Len(dependencies),
                   fs |-> fs, envs |-> envs, files |-> files,
                   procs |-> <<upgrade_run>>
                             \o LoopRuns("pip_install", pip, dependencies, outs, cfg, fs, envs),
                   batches |-> <<Batch("pip", dependencies,
                                       Appended(dependencies, outs, "ok", 1),
                                       Appended(dependencies, outs, "nonzero", 1),
                                       IF FirstNoLaunch(outs) <= Len(dependencies)
                                       THEN "abandoned" ELSE "completed")>>]

\* _auto_install_dev_dependencies (lines 443-476): no process starts from a
\* path that does not exist
auto_install_dev_dependencies(cfg, fs, envs, files, resolution, dev_outs) ==
    IF Len(cfg.dev_dependencies) = 0 THEN NoEffect(fs, envs, files)
    ELSE LET pip == get_pip_executable(cfg, resolution)
             outs == IF pip = VenvPip /\ VenvPip \notin fs
                     THEN [i \in 1..Len(cfg.dev_dependencies) |-> "nolaunch"]
                     ELSE dev_outs
         IN  [raised  |-> FALSE, fs |-> fs, envs |-> envs, files |-> files,
              procs   |-> get_pip_executable_runs(cfg, resolution, fs, envs)
                          \o LoopRuns("pip_install", pip, cfg.dev_dependencies, outs,
                                      cfg, fs, envs),
              batches |-> <<Batch("dev", cfg.dev_dependencies,
                                  Appended(cfg.dev_dependencies, outs, "ok", 1),
                                  Appended(cfg.dev_dependencies, outs, "nonzero", 1),
                                  IF FirstNoLaunch(outs) <= Len(cfg.dev_dependencies)
                                  THEN "abandoned" ELSE "completed")>>]

\* lines 84-93
install_dependencies_stage(cfg, template, fs, envs, files, upgrade, outs, resolution, dev_outs) ==
    IF ~cfg.create_venv THEN NoEffect(fs, envs, files)
    ELSE LET main == auto_install_dependencies(cfg, fs, envs, files,
                         template.dependencies \o cfg.additional_packages, upgrade, outs)
             dev == auto_install_dev_dependencies(cfg, fs, envs, files, resolution, dev_outs)
         IN  IF main.raised THEN main
             ELSE [dev EXCEPT !.procs = main.procs \o dev.procs,
                              !.batches = main.batches \o dev.batches]

\* the git commands of init_repository, in the order of the code
GitVersion == <<"-","-","v","e","r","s","i","o","n">>
GitInit == <<"i","n","i","t">>
GitGetUser == <<"c","o","n","f","i","g"," ","u","s","e","r",".","n","a","m","e">>
GitSetName == <<"c","o","n","f","i","g"," ","u","s","e","r",".","n","a","m","e"," ","I","n","i","t","y"," ","U","s","e","r">>
GitSetEmail == <<"c","o","n","f","i","g"," ","u","s","e","r",".","e","m","a","i","l"," ","u","s","e","r","@","s","t","r","u","c","u","r","e","o",".","d","e","v">>
GitAdd == <<"a","d","d"," ",".">>
GitCommit == <<"c","o","m","m","i","t">>
NoStep == <<>>

\* git on the host, as <<installed, user_configured, failing>>: failing is the
\* command that exits non-zero, NoStep when none does
GitHosts ==
    {<<FALSE, TRUE, NoStep>>, <<TRUE, TRUE, NoStep>>, <<TRUE, FALSE, NoStep>>,
     <<TRUE, TRUE, GitInit>>, <<TRUE, FALSE, GitSetEmail>>, <<TRUE, TRUE, GitAdd>>,
     <<TRUE, TRUE, GitCommit>>}

\* what a git command does on the host
GitOutcome(step, git) ==
    IF ~git[1] THEN "nolaunch"
    ELSE IF step = git[3] THEN "nonzero"
    ELSE IF step = GitGetUser /\ ~git[2] THEN "nonzero"
    ELSE "ok"

\* GitUtils.init_repository (utils/git_utils.py lines 10-74) without the
\* handlers of lines 71-74
init_repository_no_handlers(cfg, fs, envs, files, git) ==
    LET steps == <<GitVersion, GitInit, GitGetUser>>
                 \o (IF GitOutcome(GitGetUser, git) = "nonzero"
                     THEN <<GitSetName, GitSetEmail>> ELSE <<>>)
                 \o <<GitAdd, GitCommit>>
        Leaves(i) == GitOutcome(steps[i], git) # "ok" /\ steps[i] # GitGetUser
        last == IF \E i \in 1..Len(steps) : Leaves(i)
                THEN CHOOSE i \in 1..Len(steps) : Leaves(i) /\ \A j \in 1..(i - 1) : ~Leaves(j)
                ELSE Len(steps)
    IN  [raised  |-> \E i \in 1..Len(steps) : Leaves(i),
         fs      |-> IF last >= 2 /\ GitOutcome(GitInit, git) = "ok"
                     THEN fs \union {GitDir} ELSE fs,
         envs    |-> envs,
         files   |-> files,
         procs   |-> [i \in 1..last |->
                        Run("git", "git", "git", steps[i], GitOutcome(steps[i], git),
                            cfg, fs, envs)],
         batches |-> <<>>]

\* GitUtils.init_repository (utils/git_utils.py lines 10-74)
init_repository(cfg, fs, envs, files, git) ==
    LET steps == <<GitVersion, GitInit, GitGetUser>>
                 \o (IF GitOutcome(GitGetUser, git) = "nonzero"
                     THEN <<GitSetName, GitSetEmail>> ELSE <<>>)
                 \o <<GitAdd, GitCommit>>
        Leaves(i) == GitOutcome(steps[i], git) # "ok" /\ steps[i] # GitGetUser
        last == IF \E i \in 1..Len(steps) : Leaves(i)
                THEN CHOOSE i \in 1..Len(steps) : Leaves(i) /\ \A j \in 1..(i - 1) : ~Leaves(j)
                ELSE Len(steps)
    IN  [raised  |-> FALSE,
         fs      |-> IF last >= 2 /\ GitOutcome(GitInit, git) = "ok"
                     THEN fs \union {GitDir} ELSE fs,
         envs    |-> envs,
         files   |-> files,
         procs   |-> [i \in 1..last |->
                        Run("git", "git", "git", steps[i], GitOutcome(steps[i], git),
                            cfg, fs, envs)],
         batches |-> <<>>]

-----------------------------------------------------------------------------
(* ProjectCreator: the actions *)

\* the template create() works with once the lookup has found it
Template(cfg) == get_template(cfg.template_name)[1]

PCInit ==
    /\ pc_stage = "idle"
    /\ pc_cfg = <<>>
    /\ pc_host = <<>>
    /\ pc_fs = {}
    /\ pc_envs = {}
    /\ pc_files = <<>>
    /\ pc_log = <<>>
    /\ pc_procs = <<>>
    /\ pc_batches = <<>>

\* a ProjectCreator is constructed on some host and create() is called
PCCreate ==
    /\ pc_stage = "idle"
    /\ \E project \in Projects,
          additional_packages \in SeqsUpTo(ExtraUniverse, MaxExtra),
          dev_dependencies \in DevLists, env_request \in EnvRequests,
          init_git \in BOOLEAN, site \in Sites :
         \E cfg \in {ProjectCreator(project[1], project[2], additional_packages,
                                    dev_dependencies, env_request, init_git, site[1])} :
         \E conda \in (IF cfg.use_conda THEN CondaHosts(CondaEnvName(cfg))
                       ELSE {<<FALSE, TRUE, <<>>>>}) :
            /\ pc_stage' = "directory"
            /\ pc_cfg' = cfg
            /\ pc_host' = [disk |-> site[2], conda_available |-> conda[1],
                           conda_list_ok |-> conda[2], conda_listing |-> conda[3]]
            /\ pc_fs' = site[2]
            /\ pc_envs' = {conda[3][i][1] : i \in 1..Len(conda[3])}
    /\ UNCHANGED <<pc_files, pc_log, pc_procs, pc_batches>>
    /\ UNCHANGED pc_others

\* lines 54-61: the project directory
PCDirectory ==
    /\ pc_stage = "directory"
    /\ \E mkdir_ok \in (IF pc_cfg.existing_dir \/ ProjectDir \in pc_fs
                        THEN {TRUE} ELSE BOOLEAN) :
         \E r \in {create_directory(pc_cfg, pc_fs, mkdir_ok)} :
            /\ pc_stage' = IF r.raised THEN "raised" ELSE StageAfter("directory")
            /\ pc_fs' = r.fs
    /\ pc_log' = Append(pc_log, "directory")
    /\ UNCHANGED <<pc_cfg, pc_host, pc_envs, pc_files, pc_procs, pc_batches>>
    /\ UNCHANGED pc_others

\* lines 63-66: the template lookup
PCTemplate ==
    /\ pc_stage = "template"
    /\ pc_stage' = IF Len(get_template(pc_cfg.template_name)) = 0
                   THEN "raised" ELSE StageAfter("template")
    /\ pc_log' = Append(pc_log, "template")
    /\ UNCHANGED <<pc_cfg, pc_host, pc_fs, pc_envs, pc_files, pc_procs, pc_batches>>
    /\ UNCHANGED pc_others

\* a stage has ended with the effect r
StageEnds(stage, ran, r) ==
    /\ pc_stage' = IF r.raised THEN "raised" ELSE StageAfter(stage)
    /\ pc_fs' = r.fs
    /\ pc_envs' = r.envs
    /\ pc_files' = r.files
    /\ pc_procs' = pc_procs \o r.procs
    /\ pc_batches' = pc_batches \o r.batches
    /\ pc_log' = IF ran THEN Append(pc_log, stage) ELSE pc_log
    /\ UNCHANGED <<pc_cfg, pc_host>>
    /\ UNCHANGED pc_others

\* lines 68-74: the environment
PCProvision ==
    /\ pc_stage = "provision"
    /\ \E create_out \in (IF pc_cfg.use_conda THEN {"ok", "nonzero"} ELSE {"ok"}),
          venv_out \in (IF ~pc_cfg.use_conda /\ pc_cfg.create_venv /\ VenvDir \notin pc_fs
                        THEN VenvOutcomes ELSE {<<"ok", "-", {}>>}) :
         \E r \in {provision(pc_cfg, pc_host, pc_fs, pc_envs, pc_files, create_out, venv_out)} :
            StageEnds("provision", pc_cfg.use_conda \/ pc_cfg.create_venv, r)

\* lines 76-78: the files of the template; the project directory takes every write
PCGenerateFiles ==
    /\ pc_stage = "files"
    /\ \E files \in {generate_files(pc_cfg, Template(pc_cfg), pc_files, {},
                                    [i \in 1..Len(Template(pc_cfg).env_vars) |-> SecretKey(0, 1)])} :
         StageEnds("files", TRUE, [NoEffect(pc_fs, pc_envs, files) EXCEPT !.raised = FALSE])

\* lines 80-82: the requirements files
PCRequirements ==
    /\ pc_stage = "requirements"
    /\ \E files \in {create_requirements_files(pc_cfg, Template(pc_cfg), pc_files)} :
         StageEnds("requirements", TRUE, NoEffect(pc_fs, pc_envs, files))

\* lines 84-93: the dependencies
PCInstall ==
    /\ pc_stage = "install"
    /\ LET all_deps == Template(pc_cfg).dependencies \o pc_cfg.additional_packages
           with_pip == pc_cfg.create_venv /\ ~pc_cfg.use_conda /\ Len(all_deps) > 0
                       /\ WorkingPip(pc_cfg, pc_fs) # ""
           with_conda == pc_cfg.create_venv /\ pc_cfg.use_conda
       IN  \E upgrade \in (IF with_pip THEN RunOutcomes ELSE {"ok"}) :
           \E outs \in (IF with_pip /\ upgrade = "ok" THEN BatchOutcomes(Len(all_deps))
                        ELSE IF with_conda THEN BatchOutcomes(Len(all_deps))
                        ELSE {AllOk(Len(all_deps))}),
              resolution \in (IF with_conda /\ Len(pc_cfg.dev_dependencies) > 0
                              THEN PipResolutions ELSE {"venv_pip"}),
              dev_outs \in (IF pc_cfg.create_venv
                            THEN BatchOutcomes(Len(pc_cfg.dev_dependencies))
                            ELSE {AllOk(Len(pc_cfg.dev_dependencies))}) :
             \E r \in {install_dependencies_stage(pc_cfg, Template(pc_cfg), pc_fs, pc_envs,
                           pc_files, upgrade, outs, resolution, dev_outs)} :
                StageEnds("install",
                          pc_cfg.create_venv
                              /\ (Len(all_deps) > 0 \/ Len(pc_cfg.dev_dependencies) > 0),
                          r)

\* lines 95-98: the repository
PCGit ==
    /\ pc_stage = "git"
    /\ \E git \in (IF pc_cfg.init_git THEN GitHosts ELSE {<<FALSE, TRUE, NoStep>>}) :
         \E r \in {IF pc_cfg.init_git
                   THEN init_repository(pc_cfg, pc_fs, pc_envs, pc_files, git)
                   ELSE NoEffect(pc_fs, pc_envs, pc_files)} :
            StageEnds("git", pc_cfg.init_git, r)

\* line 100: create() returns the project path
PCReturn ==
    /\ pc_stage = "return"
    /\ pc_stage' = "done"
    /\ pc_log' = Append(pc_log, "return")
    /\ UNCHANGED <<pc_cfg, pc_host, pc_fs, pc_envs, pc_files, pc_procs, pc_batches>>
    /\ UNCHANGED pc_others

\* the call is over, by a return or by an exception
PCFinish ==
    /\ pc_stage \in {"done", "raised"}
    /\ pc_stage' = "idle"
    /\ pc_cfg' = <<>>
    /\ pc_host' = <<>>
    /\ pc_fs' = {}
    /\ pc_envs' = {}
    /\ pc_files' = <<>>
    /\ pc_log' = <<>>
    /\ pc_procs' = <<>>
    /\ pc_batches' = <<>>
    /\ UNCHANGED pc_others

PCNext ==
    \/ PCCreate
    \/ PCDirectory
    \/ PCTemplate
    \/ PCProvision
    \/ PCGenerateFiles
    \/ PCRequirements
    \/ PCInstall
    \/ PCGit
    \/ PCReturn
    \/ PCFinish

-----------------------------------------------------------------------------
(* ProjectCreator: _generate_files on a disk that refuses writes *)

\* a ProjectTemplate (templates/template.py) whose second file names a field
\* the context does not have
custom_template ==
    [name         |-> <<"c","u","s","t","o","m">>,
     dependencies |-> <<>>,
     files        |-> <<
        <<"a.py", <<"N","A","M","E"," ","="," ","\"","{","p","r","o","j","e","c","t","_","n","a","m","e","_","s","n","a","k","e","}","\"","\n">>>>,
        <<"b.py", <<"O","W","N","E","R"," ","="," ","\"","{","o","w","n","e","r","}","\"","\n">>>>,
        <<"c.py", <<"T","I","T","L","E"," ","="," ","\"","{","p","r","o","j","e","c","t","_","n","a","m","e","_","t","i","t","l","e","}","\"","\n">>>> >>,
     env_vars     |-> << <<<<"P","O","R","T">>, <<"8","0","0","0">>>> >>]

\* the templates _generate_files is called with
GeneratedTemplates == {basic_template, fastapi_template, custom_template}

\* the names whose write_text can raise
Unwritable == {"main.py", "README.md", "c.py", ".env", ".gitignore"}

GFInit ==
    /\ gf_phase = "idle"
    /\ gf_args = <<>>
    /\ gf_result = <<>>

\* _generate_files is called and returns or raises
GFGenerate ==
    /\ gf_phase = "idle"
    /\ \E project_name \in {<<"M","y"," ","P","r","o","j","e","c","t">>, <<"m","y","-","a","p","p">>}, template \in GeneratedTemplates,
          blocked \in SUBSET Unwritable :
         \E cfg \in {ProjectCreator(project_name, template.name, <<>>, <<>>,
                                    <<FALSE, FALSE, <<>>>>, FALSE, FALSE)} :
            /\ gf_phase' = "done"
            /\ gf_args' = [cfg |-> cfg, template |-> template, blocked |-> blocked]
            /\ gf_result' = generate_files_steps(cfg, template, <<>>, blocked,
                                [i \in 1..Len(template.env_vars) |-> SecretKey(0, 1)])
    /\ UNCHANGED gf_others

\* the call is over
GFReturn ==
    /\ gf_phase = "done"
    /\ gf_phase' = "idle"
    /\ gf_args' = <<>>
    /\ gf_result' = <<>>
    /\ UNCHANGED gf_others

GFNext == GFGenerate \/ GFReturn

\* the template files of the call that do not render or cannot be written
FailingFiles ==
    {i \in 1..Len(gf_args.template.files) :
        \/ FormatRaises(gf_args.template.files[i][2], RenderContext(gf_args.cfg), 1)
        \/ gf_args.template.files[i][1] \in gf_args.blocked}

\* C22: when the only failures of a call of _generate_files are template files
\* that do not render or cannot be written, the call does not raise, none of
\* the failing files is on disk, every other template file is on disk with its
\* rendered content, and .env (when the template has variables) and
\* .gitignore are written.
C22_PerFileFailure ==
    (gf_phase = "done" /\ {".env", ".gitignore"} \cap gf_args.blocked = {}) =>
        /\ ~gf_result.raised
        /\ \A i \in 1..Len(gf_args.template.files) :
              IF i \in FailingFiles
              THEN gf_args.template.files[i][1] \notin DictKeys(gf_result.files)
              ELSE /\ gf_args.template.files[i][1] \in DictKeys(gf_result.files)
                   /\ DictGet(gf_result.files, gf_args.template.files[i][1])
                         = Format(gf_args.template.files[i][2], RenderContext(gf_args.cfg))
        /\ Len(gf_args.template.env_vars) > 0 => ".env" \in DictKeys(gf_result.files)
        /\ DictGet(gf_result.files, ".gitignore") = GitignoreContent

\* C22 witness: the second of three files does not render, the third is
\* written after it, and then .env and .gitignore
C22_Witness ==
    /\ gf_phase = "done"
    /\ gf_args.template = custom_template
    /\ gf_args.blocked = {}
    /\ FailingFiles = {2}
    /\ ~gf_result.raised
    /\ DictKeys(gf_result.files) = {"a.py", "c.py", ".env", ".gitignore"}
    /\ DictGet(gf_result.files, "c.py") = <<"T","I","T","L","E"," ","="," ","\"","M","y"," ","A","p","p","\"","\n">>
-----------------------------------------------------------------------------
(* ProjectCreator: properties *)

\* the stages in the order the claim gives them, the template lookup among them
StageOrder ==
    <<"directory", "template", "provision", "files", "requirements", "install",
      "git", "return">>

StageRanks ==
    [stage \in {StageOrder[i] : i \in 1..Len(StageOrder)} |->
        CHOOSE i \in 1..Len(StageOrder) : StageOrder[i] = stage]

StageRank(stage) == StageRanks[stage]

InstallerKinds == {"pip_upgrade", "pip_install", "conda_run_install"}
EnvCreationKinds == {"venv", "conda_create"}

\* C1: in every execution of create() the stages that run occur in the order
\* directory, environment, files, requirements, installation, repository,
\* return; no stage is entered twice, the stage about to run comes after every
\* stage that has run, every process is started inside the stage it belongs to
\* and never before a process of an earlier stage, so that no git process
\* starts before the files are written and every installer invocation has ended.
C1_StagesInOrder ==
    /\ \A i \in 1..(Len(pc_log) - 1) :
          \A j \in (i + 1)..Len(pc_log) : StageRank(pc_log[i]) < StageRank(pc_log[j])
    /\ pc_stage \notin {"idle", "done", "raised"} =>
          \A i \in 1..Len(pc_log) : StageRank(pc_log[i]) < StageRank(pc_stage)
    /\ \A i \in 1..Len(pc_procs) :
          /\ \E k \in 1..Len(pc_log) : pc_log[k] = pc_procs[i].stage
          /\ i < Len(pc_procs) =>
                StageRank(pc_procs[i].stage) <= StageRank(pc_procs[i + 1].stage)
    /\ \A k \in 1..Len(pc_log) :
          pc_log[k] = "git" =>
             /\ \E j \in 1..(k - 1) : pc_log[j] = "files"
             /\ ".gitignore" \in DictKeys(pc_files)

\* C1 witness: a call in which every stage ran, with installer and git processes
C1_Witness ==
    /\ pc_stage = "done"
    /\ pc_log = StageOrder
    /\ \E i, j \in 1..Len(pc_procs) :
          /\ i < j
          /\ pc_procs[i].kind = "pip_install"
          /\ pc_procs[j].kind = "git"

\* C2: no installer process (pip upgrade, pip install, conda run pip install)
\* is invoked while the project directory does not exist or the requested
\* environment (.venv, or the named conda environment) does not exist.
C2_InstallersAfterEnvironment ==
    \A i \in 1..Len(pc_procs) :
        pc_procs[i].kind \in InstallerKinds => pc_procs[i].dir /\ pc_procs[i].env

\* C2 witness: installers ran in a directory and a venv that create() made,
\* and in a conda environment that create() made
C2_Witness ==
    /\ pc_stage = "done"
    /\ \/ /\ ~pc_cfg.use_conda
          /\ ProjectDir \notin pc_host.disk
          /\ \E i \in 1..Len(pc_procs) :
                pc_procs[i].kind = "pip_install" /\ pc_procs[i].out = "ok"
       \/ /\ pc_cfg.use_conda
          /\ Len(pc_host.conda_listing) = 0
          /\ \E i \in 1..Len(pc_procs) : pc_procs[i].kind = "conda_run_install"

\* the elements of a list
Elements(list) == {list[i] : i \in 1..Len(list)}

\* C3: for every dependency batch (pip, conda run, dev) and every combination
\* of installer outcomes, a failing pip self-upgrade and a repeated package
\* included, when the batch ends the successful and the failed lists are
\* disjoint and together as long as the input.
C3_BatchAccounting ==
    \A i \in 1..Len(pc_batches) :
        pc_batches[i].status # "skipped" =>
            /\ Elements(pc_batches[i].successful) \cap Elements(pc_batches[i].failed) = {}
            /\ Len(pc_batches[i].successful) + Len(pc_batches[i].failed)
                  = Len(pc_batches[i].input)

\* the lines of a text, each ended by a line feed, from position i on; a text
\* that does not end with a line feed has no such reading and gives <<>>
RECURSIVE FileLinesFrom(_, _)
FileLinesFrom(text, i) ==
    IF i > Len(text) THEN <<>>
    ELSE IF \E k \in i..Len(text) : text[k] = "\n"
    THEN LET e == CHOOSE k \in i..Len(text) :
                     text[k] = "\n" /\ \A j \in i..(k - 1) : text[j] # "\n"
         IN  <<SubSeq(text, i, e - 1)>> \o FileLinesFrom(text, e + 1)
    ELSE <<>>

EndsWithLineFeed(text) == Len(text) > 0 /\ text[Len(text)] = "\n"

\* the file holds exactly the identifiers of deps, one per line, ascending
HoldsSortedSet(name, deps) ==
    /\ name \in DictKeys(pc_files)
    /\ EndsWithLineFeed(DictGet(pc_files, name))
    /\ LET lines == FileLinesFrom(DictGet(pc_files, name), 1)
       IN  /\ Elements(lines) = Elements(deps)
           /\ \A i, j \in 1..Len(lines) : i < j => StrLess(lines[i], lines[j])

\* C6: once the requirements are written, requirements.txt holds exactly the
\* set union of the template dependencies and the additional packages, one per
\* line, ascending, none twice, when that union is not empty; requirements-dev.txt
\* holds the dev dependencies in the same way.
C6_RequirementsSortedUnion ==
    (\E k \in 1..Len(pc_log) : pc_log[k] = "requirements") =>
        /\ Len(Template(pc_cfg).dependencies \o pc_cfg.additional_packages) > 0 =>
              HoldsSortedSet("requirements.txt",
                             Template(pc_cfg).dependencies \o pc_cfg.additional_packages)
        /\ Len(pc_cfg.dev_dependencies) > 0 =>
              HoldsSortedSet("requirements-dev.txt", pc_cfg.dev_dependencies)

\* C6 witness: the additional package sorts before the template's and one dev
\* dependency is listed twice
C6_Witness ==
    /\ pc_stage = "done"
    /\ pc_cfg.template_name = <<"f","a","s","t","a","p","i">>
    /\ pc_cfg.additional_packages = <<<<"F","l","a","s","k">>>>
    /\ pc_cfg.dev_dependencies = <<<<"b","l","a","c","k">>, <<"b","l","a","c","k">>>>
    /\ DictGet(pc_files, "requirements.txt") = <<"F","l","a","s","k","\n","f","a","s","t","a","p","i","\n","u","v","i","c","o","r","n","[","s","t","a","n","d","a","r","d","]","\n">>
    /\ DictGet(pc_files, "requirements-dev.txt") = <<"b","l","a","c","k","\n">>

\* C10: with no environment and no repository requested, create() starts no
\* environment-creation, installer or git process and creates neither .venv nor
\* .git; when it returns it has written every file of the template and
\* .gitignore, and for the basic template and the name "My Project" main.py
\* contains "Hello, My Project!".
C10_PlainProject ==
    (pc_stage # "idle" /\ ~pc_cfg.create_venv /\ ~pc_cfg.use_conda /\ ~pc_cfg.init_git) =>
        /\ \A i \in 1..Len(pc_procs) :
              pc_procs[i].kind \notin EnvCreationKinds \union InstallerKinds \union {"git"}
        /\ GitDir \notin pc_fs
        /\ VenvDir \in pc_fs => VenvDir \in pc_host.disk
        /\ pc_stage = "done" =>
              /\ \A i \in 1..Len(Template(pc_cfg).files) :
                    Template(pc_cfg).files[i][1] \in DictKeys(pc_files)
              /\ ".gitignore" \in DictKeys(pc_files)
              /\ (pc_cfg.template_name = <<"b","a","s","i","c">> /\ pc_cfg.project_name = <<"M","y"," ","P","r","o","j","e","c","t">>) =>
                    Contains(DictGet(pc_files, "main.py"), <<"H","e","l","l","o",","," ","M","y"," ","P","r","o","j","e","c","t","!">>)

\* C10 witness: the plain basic project "My Project" has been created
C10_Witness ==
    /\ pc_stage = "done"
    /\ ~pc_cfg.create_venv /\ ~pc_cfg.use_conda /\ ~pc_cfg.init_git
    /\ pc_cfg.template_name = <<"b","a","s","i","c">>
    /\ pc_cfg.project_name = <<"M","y"," ","P","r","o","j","e","c","t">>
    /\ pc_procs = <<>>
    /\ DictKeys(pc_files) = {"main.py", "README.md", ".env", ".gitignore"}
    /\ Contains(DictGet(pc_files, "main.py"), <<" "," "," "," ","p","r","i","n","t","(","\"","H","e","l","l","o",","," ","M","y"," ","P","r","o","j","e","c","t","!","\"",")","\n">>)

-----------------------------------------------------------------------------
(* ProjectCreator: error handling *)

\* the stage has run in this call of create()
Ran(stage) == \E k \in 1..Len(pc_log) : pc_log[k] = stage

\* the per-package installer invocations made so far
PackageInstalls ==
    SelectSeq(pc_procs, LAMBDA p : p.kind \in {"pip_install", "conda_run_install"})

\* the number of packages in the batches that found an installer
RECURSIVE PackagesToInstall(_)
PackagesToInstall(i) ==
    IF i > Len(pc_batches) THEN 0
    ELSE (IF pc_batches[i].status = "skipped" THEN 0 ELSE Len(pc_batches[i].input))
         + PackagesToInstall(i + 1)

\* C11: once the installation stage of create() has run, whatever failed in it
\* (the pip self-upgrade, a package install, an installer that does not start),
\* create() has not raised, every package of every batch that found an
\* installer has been attempted, and when the call is about to return the
\* repository initialization has run if it was requested.
C11_InstallFailuresNotFatal ==
    Ran("install") =>
        /\ pc_stage # "raised"
        /\ Len(PackageInstalls) = PackagesToInstall(1)
        /\ (pc_cfg.init_git /\ pc_stage \in {"return", "done"}) => Ran("git")

\* the names the registry holds (templates/registry.py lines 18-23)
RegisteredNames == {<<"b","a","s","i","c">>, <<"f","a","s","t","a","p","i">>}

\* nothing but the stages up to the template lookup has acted in this call
OnlyLookedUp ==
    /\ \A k \in 1..Len(pc_log) : pc_log[k] \in {"directory", "template"}
    /\ pc_procs = <<>>
    /\ pc_batches = <<>>
    /\ pc_files = <<>>
    /\ pc_envs = {pc_host.conda_listing[i][1] : i \in 1..Len(pc_host.conda_listing)}
    /\ pc_host.disk \subseteq pc_fs
    /\ pc_fs \subseteq pc_host.disk \union {ProjectDir}

\* C12: when the project directory is missing after the directory stage (mkdir
\* failed, or existing_dir was set and the directory is not there), or the
\* template name is not registered, create() has raised at that stage, and no
\* environment was provisioned, no file generated, no requirements written, no
\* process started, and nothing that was on disk before has been removed.
C12_FatalBeforeProvisioning ==
    /\ (Ran("directory") /\ ProjectDir \notin pc_fs) =>
          pc_stage = "raised" /\ pc_log = <<"directory">> /\ OnlyLookedUp
    /\ (Ran("template") /\ pc_cfg.template_name \notin RegisteredNames) =>
          pc_stage = "raised" /\ pc_log = <<"directory", "template">> /\ OnlyLookedUp

\* C12 witness: the lookup of an unregistered template has raised in a
\* directory that this call created and left in place
C12_Witness ==
    /\ pc_stage = "raised"
    /\ pc_cfg.template_name = <<"f","l","a","s","k">>
    /\ pc_log = <<"directory", "template">>
    /\ ProjectDir \in pc_fs
    /\ ProjectDir \notin pc_host.disk

\* create() has raised in the provisioning stage and nothing has acted since
RaisedInProvisioning ==
    /\ pc_stage = "raised"
    /\ pc_log = <<"directory", "template", "provision">>
    /\ pc_files = <<>>
    /\ pc_batches = <<>>
    /\ \A i \in 1..Len(pc_procs) : pc_procs[i].stage = "provision"

\* C13: when an environment was requested and, after the provisioning stage,
\* a creation command has exited non-zero or the environment is not there
\* (.venv absent, or the conda environment not created), create() has raised
\* in that stage: no file was generated, no requirements written, no installer
\* and no git process started.
C13_FailedEnvironmentIsFatal ==
    (Ran("provision")
        /\ \/ \E i \in 1..Len(pc_procs) :
                 pc_procs[i].kind \in EnvCreationKinds /\ pc_procs[i].out # "ok"
           \/ ~EnvExists(pc_cfg, pc_fs, pc_envs))
    => RaisedInProvisioning

\* C13 witness: both venv creation commands exited 0 and left no .venv, and
\* create() has raised
C13_Witness ==
    /\ pc_stage = "raised"
    /\ ~pc_cfg.use_conda /\ pc_cfg.create_venv
    /\ Len(pc_procs) = 2
    /\ \A i \in 1..2 : pc_procs[i].kind = "venv" /\ pc_procs[i].out = "ok"
    /\ VenvDir \notin pc_fs

\* C14: the step of create() that initializes the repository, whatever git
\* does on the host (not installed, or init, config, add or commit exiting
\* non-zero), does not raise: create() goes on to return the project path, the
\* generated files are as they were and nothing on disk has been removed.
C14_GitFailureSwallowed ==
    [][(pc_stage = "git" /\ pc_cfg.init_git) =>
          /\ pc_stage' = "return"
          /\ pc_files' = pc_files
          /\ pc_fs \subseteq pc_fs'
          /\ pc_envs' = pc_envs]_vars

\* C14 witness: create() has returned after `git add .` exited non-zero, with
\* the generated files in place
C14_Witness ==
    /\ pc_stage = "done"
    /\ pc_cfg.init_git
    /\ Len(pc_procs) > 0
    /\ pc_procs[Len(pc_procs)].arg = GitAdd
    /\ pc_procs[Len(pc_procs)].out = "nonzero"
    /\ GitDir \in pc_fs
    /\ {"main.py", ".gitignore"} \subseteq DictKeys(pc_files)

\* create() was asked for a virtual environment in the project directory
VenvRequested == pc_stage # "idle" /\ ~pc_cfg.use_conda /\ pc_cfg.create_venv

\* the provisioning stage has run and create() has not raised in it
Provisioned == Ran("provision") /\ (pc_stage = "raised" => Ran("files"))

\* C15: when .venv was there before create(), the provisioning stage has
\* started no creation process, has not raised and has left the disk as it
\* was; and once provisioning has succeeded, _create_virtual_environment run
\* again, whatever the creation commands would do, starts no process, does not
\* raise and changes nothing.
C15_VenvProvisioningIdempotent ==
    (VenvRequested /\ Ran("provision")) =>
        /\ VenvDir \in pc_host.disk =>
              /\ \A i \in 1..Len(pc_procs) : pc_procs[i].kind # "venv"
              /\ Provisioned
              /\ pc_host.disk \subseteq pc_fs
              /\ pc_fs \subseteq pc_host.disk \union {GitDir}
        /\ Provisioned =>
              \A out \in VenvOutcomes :
                 create_virtual_environment(pc_cfg, pc_fs, pc_envs, pc_files, out)
                    = NoEffect(pc_fs, pc_envs, pc_files)

\* C15 witness: create() has returned for a directory that held a .venv, with
\* no creation process and with packages installed by the pip of that .venv
C15_Witness ==
    /\ pc_stage = "done"
    /\ VenvRequested
    /\ VenvDir \in pc_host.disk
    /\ \A i \in 1..Len(pc_procs) : pc_procs[i].kind # "venv"
    /\ \E i \in 1..Len(pc_procs) : pc_procs[i].kind = "pip_install" /\ pc_procs[i].out = "ok"

\* a .venv is there and holds none of the candidate installer executables
NoInstaller ==
    /\ VenvRequested
    /\ VenvDir \in pc_fs
    /\ {VenvPip, VenvPip3, VenvPip3Exe} \cap pc_fs = {}

\* the dependency lists create() hands to the installation stage
DependencyLists ==
    SelectSeq(<<Template(pc_cfg).dependencies \o pc_cfg.additional_packages,
                pc_cfg.dev_dependencies>>,
              LAMBDA deps : Len(deps) > 0)

-----------------------------------------------------------------------------
(* the create command and ProjectCreator *)

\* commands/create.py lines 124-137: the environment arguments the create
\* command passes to ProjectCreator, as <<create_venv, use_conda, conda_env_name>>
create_command_request(no_venv, use_conda, conda_env_name) ==
    <<~no_venv /\ ~use_conda, use_conda, conda_env_name>>

\* the creator was constructed by the create command with a conda environment
CondaFromCreateCommand ==
    \E no_venv \in BOOLEAN :
        <<pc_cfg.create_venv, pc_cfg.use_conda, pc_cfg.conda_env_name>>
            = create_command_request(no_venv, TRUE, pc_cfg.conda_env_name)

\* C23: when the create command asked for a conda environment and the template
\* dependencies plus the additional packages are not empty, then once create()
\* is past the requirements files and at the repository initialization or
\* later, the installation stage has run and every dependency has been
\* attempted by an installer process of that stage.
C23_CondaDependenciesInstalled ==
    LET all_deps == Template(pc_cfg).dependencies \o pc_cfg.additional_packages
    IN  (pc_stage \in {"git", "return", "done"} /\ CondaFromCreateCommand
            /\ Len(all_deps) > 0) =>
           /\ Ran("install")
           /\ \A j \in 1..Len(all_deps) :
                 \E i \in 1..Len(pc_procs) :
                    /\ pc_procs[i].stage = "install"
                    /\ pc_procs[i].kind \in InstallerKinds
                    /\ pc_procs[i].arg = all_deps[j]

\* conda lists an environment with the name create() was asked for
NameCollision ==
    /\ pc_cfg.use_conda
    /\ pc_host.conda_available /\ pc_host.conda_list_ok
    /\ \E i \in 1..Len(pc_host.conda_listing) :
          pc_host.conda_listing[i][1] = CondaEnvName(pc_cfg)

\* C28: when the requested conda environment name is the name of an
\* environment that conda lists, create() starts no conda environment
\* creation, whatever interpreter the environment holds and whether or not its
\* version could be read.
C28_ReuseOnNameCollision ==
    (pc_stage # "idle" /\ NameCollision) =>
        \A i \in 1..Len(pc_procs) : pc_procs[i].kind # "conda_create"

\* the executables of the pip processes create() has started
PipExecutables ==
    {pc_procs[i].exe : i \in {k \in 1..Len(pc_procs) :
                                 pc_procs[k].kind \in {"pip_upgrade", "pip_install"}}}

\* C29: within one create() run on a venv project every pip process, of the
\* main and of the dev dependencies, is started from the one installer
\* executable that the main installation resolved from the candidate paths.
C29_OneInstallerExecutable ==
    (pc_stage \in {"git", "return", "done"} /\ pc_cfg.create_venv /\ ~pc_cfg.use_conda) =>
        /\ Cardinality(PipExecutables) <= 1
        /\ PipExecutables \subseteq {WorkingPip(pc_cfg, pc_fs)}
-----------------------------------------------------------------------------
(* Specifications *)

Init == PMInit /\ EGInit /\ PVInit /\ PXInit /\ PSInit /\ SRInit /\ GFInit /\ PCInit

\* the PackageManager operations
SpecPM == Init /\ [][PMNext]_vars

\* EnvGenerator.generate_env_file
SpecEnv == Init /\ [][EGNext]_vars

\* PythonVersionManager discovery
SpecVer == Init /\ [][PVNext]_vars

\* PythonVersionManager.get_python_executable
SpecExe == Init /\ [][PXNext]_vars

\* PackageSearcher validation
SpecSearch == Init /\ [][PSNext]_vars

\* PackageSearcher.search_packages_realtime
SpecFind == Init /\ [][SRNext]_vars

\* ProjectCreator._generate_files
SpecFiles == Init /\ [][GFNext]_vars

\* ProjectCreator.create
SpecCreate == Init /\ [][PCNext]_vars

====
